---- MODULE Spec2Model ----
(***************************************************************************)
(* Model of the XXMITools exporter: the vertex/index buffer builders of    *)
(* migoto/export_ops.py (mesh_to_bin, export_3dmigoto, generate_mod_folder *)
(* and its collect_* helpers, the element encodings of                     *)
(* blender_to_migoto_vertices, optimized_outline_generation and            *)
(* recursive_connections) and ModExporter.generate_buffers and             *)
(* ModExporter.export of migoto/exporter.py.                               *)
(***************************************************************************)
EXTENDS Integers, Sequences, FiniteSets, TLC

VARIABLES
    \* ---- mesh_to_bin / export_3dmigoto ----
    op,                 \* which exporter produced the outputs below ("idle" before a run)
    loops,              \* mesh.loops: 0..n-1 -> [vertex_index, normal]
    FlipMesh,           \* obj["3DMigoto:FlipMesh"]
    FlipWinding,        \* obj["3DMigoto:FlipWinding"]
    topology,           \* obj["3DMigoto:Topology"]
    has_ib,             \* "3DMigoto:IBFormat" in obj
    migoto_verts,       \* one assembled record per loop
    indexed_vertices,   \* the OrderedDict, as its sequence of <<key, value>> items
    ib_list,            \* the values returned by setdefault, in traversal order
    ib,                 \* the emitted index buffer: a sequence of faces
    vb,                 \* the emitted vertex buffer: a sequence of records
    err,                \* the exception the run ended with ("none" when it returned)
    \* ---- generate_mod_folder ----
    gm_pc,              \* position in generate_mod_folder
    char_hash_len,      \* len(char_hash): the number of components
    num,                \* index of the component being worked on
    object_count,       \* len(component["object_indexes"])
    obj_i,              \* i: index of the sub-object being collected
    offset,             \* the running index offset of the component
    position,           \* len(position): bytes merged so far for the component
    position_stride,    \* bytes of one record of the position buffer
    collected,          \* records read from each sub-object collected so far
    ib_offsets,         \* the offset handed to collect_ib for each of them
    ib_written,         \* contents of the .ib file written last
    total_verts,        \* char_hash[num]["total_verts"] recorded last
    \* ---- ModExporter.generate_buffers ----
    gb_pc,              \* position in generate_buffers
    components_len,     \* len(self.mod_file.components)
    comp_i,             \* index of the component being processed
    parts_len,          \* len(component.parts)
    part_i,             \* index of the part being processed
    objects_len,        \* len(part.objects)
    entry_i,            \* index of the sub-object (entry) being processed
    ib_offset,          \* the running index offset of the component
    ib_buffer,          \* the part's merged index data (<<>> while it is None)
    gen_ib,             \* gen_buffers["IB"] of the entry processed last, offset added
    emitted,            \* vertices emitted so far by the sub-objects of the component
    emitted_before,     \* the same count just before the entry processed last
    \* ---- normalized-integer encoding of blender_to_migoto_vertices ----
    enc_pc,             \* "input" before an element is encoded, "encoded" after
    elem_format,        \* the element's normalized format
    scaled4,            \* four times the scaled value result * scale
    encoded,            \* the integer stored in migoto_verts[elem.name]
    \* ---- NORMAL and TANGENT elements of blender_to_migoto_vertices ----
    tn_pc,              \* "input" before an element is filled, "stored" after
    elem_name,          \* translated_elem_name: "NORMAL" or "TANGENT"
    norm_format,        \* the element's format: a normalized one or "float"
    FlipNormal,         \* main_obj["3DMigoto:FlipNormal"]
    normal4,            \* four times a y or z component of the loop's direction
    result4,            \* four times the component of result before encoding
    norm_stored,        \* what migoto_verts[elem.name] holds for the component
    \* ---- BLENDWEIGHT and BLENDINDICES elements of blender_to_migoto_vertices ----
    bw_pc,              \* "start", "elements" (in the loop), "returned", "raised"
    has_deform,         \* layer_deform is not None
    weights,            \* per vertex, the (group, weight) pairs sorted by weight
    normalize_weights,  \* operator.normalize_weights
    weights_np,         \* <<>> while None; per vertex [INDEX, WEIGHT] afterwards
    blend_len,          \* 0 while None; format_len of the first blend element
    elem,               \* the element processed last
    elems_done,         \* number of elements processed
    blend_result,       \* result of the element processed last, one row per loop
    blend_err,          \* "none" or the exception raised
    \* ---- ModExporter.export ----
    ex_pc,              \* "idle", "running", "done" or "raised"
    ex_step,            \* position in the body of export (0 while idle)
    ex_components,      \* len(self.mod_file.components)
    ex_comp,            \* components whose buffers have been generated
    ini_generated,      \* generate_ini has rendered the ini text
    copy_textures,      \* self.copy_textures
    files_to_write,     \* keys of self.files_to_write, in insertion order
    files_to_copy,      \* keys of self.files_to_copy, in insertion order
    written_n,          \* files of files_to_write written to the destination
    copied_n,           \* textures of files_to_copy copied to the destination
    raised_in,          \* the method an exception was raised in, or "none"
    \* ---- the fmt stride check and the files of generate_mod_folder ----
    sf_pc,              \* "load_hashes", "component", "objects", "done", "raised"
    sf_len,             \* len(char_hash)
    sf_num,             \* num: index of the component being worked on
    game,               \* the game the mod is exported for
    blend_vb,           \* component["blend_vb"] is not empty
    fmt_layout,         \* the elements parsed from the component's fmt file
    fmt_stride,         \* fmt_layout.stride: the stride the fmt file declares
    strides,            \* [position_stride, blend_stride, texcoord_stride]
    sf_objects,         \* len(component["object_indexes"])
    sf_obj,             \* i: index of the sub-object being worked on
    dest_files,         \* the .ib and .buf files written to destination by the run
    \* ---- recursive_connections ----
    rc_pc,              \* "idle" before a call, "returned" after
    Over2_connected_points, \* the dict handed to the call, as its <<key, set>> items
    rc_result,          \* the value the call returned
    \* ---- optimized_outline_generation and the buffers built from it ----
    ol_pc,              \* "idle", "mesh" (mesh evaluated), "precomputed", "built" after the run
    polygons,           \* mesh.polygons: each with its vertices and its normal
    position_key,       \* per vertex, the rounded position it is grouped by
    angle_weighted,     \* outline_properties: angle_weighted
    overlapping_faces,  \* outline_properties: overlapping_faces
    calculate_all_faces, \* outline_properties: calculate_all_faces
    undeformed_co,      \* per vertex, its coordinate on the axis the vertices differ on
    detect_edges,       \* outline_properties: detect_edges
    Precalculated_Outline_data, \* Same_Vertex and RepositionLocal after the pre-computation
    edge_passes,        \* the passes of edge detection, one per position group
    processed,          \* the keys the calculation loop did not skip, with what became of them
    set_order,          \* the order in which the build iterates a set of ints
    export_outline,     \* the returned map: vertex -> outline direction
    outline_vb,         \* the vertex buffer built from the records
    outline_ib,         \* the index buffer built from the records
    outline_err,        \* "none" or the exception the run ended with
    \* ---- the vertex counts kept by a ModExporter across generate_buffers ----
    vc_pc,              \* "new", "ready" between calls, "entry" inside the loops
    mod_component,      \* a component of mod_file: its parts, their objects, the vertex_count of each
    output_position,    \* the records of output_buffers["Position"] of the current call
    vc_part,            \* index of the part being processed
    vc_entry,           \* index of the entry being processed
    gb_calls,           \* calls of generate_buffers made on the instance
    \* ---- collect_vb, collect_vb_single, collect_ib ----
    cv_pc,              \* "idle", "loop", "returned", "raised"
    cv_fn,              \* the function called
    cv_data,            \* the bytes read from the file
    cv_strides,         \* the strides handed to the call (one for collect_vb_single)
    cv_offset,          \* the offset handed to collect_ib
    cv_i,               \* i, the read position
    streams,            \* the bytearrays built: for the vb functions, the offsets in cv_data of their bytes
    cv_passes           \* passes of the while loop made, counted modulo MaxPasses

meshVars == <<op, loops, FlipMesh, FlipWinding, topology, has_ib,
              migoto_verts, indexed_vertices, ib_list, ib, vb, err>>

modFolderVars == <<gm_pc, char_hash_len, num, object_count, obj_i, offset, position,
                   position_stride, collected, ib_offsets, ib_written,
                   total_verts>>

genVars == <<gb_pc, components_len, comp_i, parts_len, part_i, objects_len,
             entry_i, ib_offset, ib_buffer, gen_ib, emitted, emitted_before>>

codecVars == <<enc_pc, elem_format, scaled4, encoded>>

normalVars == <<tn_pc, elem_name, norm_format, FlipNormal, normal4, result4,
                norm_stored>>

blendVars == <<bw_pc, has_deform, weights, normalize_weights, weights_np,
               blend_len, elem, elems_done, blend_result, blend_err>>

exportVars == <<ex_pc, ex_step, ex_components, ex_comp, ini_generated,
                copy_textures, files_to_write, files_to_copy, written_n,
                copied_n, raised_in>>

strideVars == <<sf_pc, sf_len, sf_num, game, blend_vb, fmt_layout, fmt_stride,
                strides, sf_objects, sf_obj, dest_files>>

connVars == <<rc_pc, Over2_connected_points, rc_result>>

outlineVars == <<ol_pc, polygons, position_key, undeformed_co, angle_weighted,
                 overlapping_faces, calculate_all_faces, detect_edges,
                 Precalculated_Outline_data, edge_passes, processed, set_order,
                 export_outline, outline_vb, outline_ib, outline_err>>

countVars == <<vc_pc, mod_component, output_position, vc_part, vc_entry,
               gb_calls>>

collectVars == <<cv_pc, cv_fn, cv_data, cv_strides, cv_offset, cv_i, streams,
                 cv_passes>>

laterVars == <<normalVars, blendVars, exportVars, strideVars, connVars,
               outlineVars, countVars, collectVars>>

vars == <<meshVars, modFolderVars, genVars, codecVars, laterVars>>

notMesh == <<modFolderVars, genVars, codecVars, laterVars>>

notModFolder == <<meshVars, genVars, codecVars, laterVars>>

notGen == <<meshVars, modFolderVars, codecVars, laterVars>>

notCodec == <<meshVars, modFolderVars, genVars, laterVars>>

firstVars == <<meshVars, modFolderVars, genVars, codecVars>>

notNormal == <<firstVars, blendVars, exportVars, strideVars, connVars,
               outlineVars, countVars, collectVars>>

notBlend == <<firstVars, normalVars, exportVars, strideVars, connVars,
               outlineVars, countVars, collectVars>>

notExport == <<firstVars, normalVars, blendVars, strideVars, connVars,
               outlineVars, countVars, collectVars>>

notStride == <<firstVars, normalVars, blendVars, exportVars, connVars,
               outlineVars, countVars, collectVars>>

notConn == <<firstVars, normalVars, blendVars, exportVars, strideVars,
               outlineVars, countVars, collectVars>>

notOutline == <<firstVars, normalVars, blendVars, exportVars, strideVars,
                connVars, countVars, collectVars>>

notCount == <<firstVars, normalVars, blendVars, exportVars, strideVars,
              connVars, outlineVars, collectVars>>

notCollect == <<firstVars, normalVars, blendVars, exportVars, strideVars,
                connVars, outlineVars, countVars>>

----------------------------------------------------------------------------
(* Bounds and input sets *)

MaxTris == 2

MaxComponents == 2

MaxObjects == 3

MaxRecs == 2

MaxStride == 2

MaxParts == 2

MaxEntries == 2

Window == 2

Vertices == 0 .. 3

\* x component of a corner's unit normal
NormalX == {-1, 1}

\* mesh_triangulate leaves polygons of three distinct vertices
Triangles == {t \in [0 .. 2 -> Vertices] : t[0] < t[1] /\ t[1] < t[2]}

\* the loops of the mesh whose p-th triangle is tris[p], with nrm[l] the normal of corner l
LoopsOf(tris, nrm) ==
    [l \in DOMAIN nrm |->
        [vertex_index |-> tris[l \div 3][l % 3], normal |-> nrm[l]]]

\* the corner normals of a mesh of nt triangles
CornerNormals(nt) == [0 .. 3 * nt - 1 -> NormalX]

\* the triangles of a mesh of nt triangles
TriangleLists(nt) == [0 .. nt - 1 -> Triangles]

NumLoops(lp) == Cardinality(DOMAIN lp)

NumPolygons(lp) == NumLoops(lp) \div 3

----------------------------------------------------------------------------
(* Helpers standing for Python / numpy primitives *)

\* list.reverse / a row under numpy.fliplr
Reverse(s) == [i \in 1 .. Len(s) |-> s[Len(s) + 1 - i]]

\* position (1-based) of key k among the items of an OrderedDict, 0 when absent
RECURSIVE FindKey(_, _, _)
FindKey(d, k, i) ==
    IF i > Len(d) THEN 0
    ELSE IF d[i][1] = k THEN i
    ELSE FindKey(d, k, i + 1)

\* OrderedDict.setdefault(k, default): the dict afterwards and the value returned
SetDefault(d, k, default) ==
    LET p == FindKey(d, k, 1)
    IN  IF p = 0
        THEN [dict |-> Append(d, <<k, default>>), value |-> default]
        ELSE [dict |-> d, value |-> d[p][2]]

\* iteration over an OrderedDict yields its keys in insertion order
Keys(d) == [i \in 1 .. Len(d) |-> d[i][1]]

----------------------------------------------------------------------------
(* blender_to_migoto_vertices and mesh_to_bin *)

\* undeformed_co.x of a mesh vertex: distinct and non-zero for distinct vertices
PositionCo(v) == v + 1

\* -(2 * main_obj.get("3DMigoto:FlipMesh", False) - 1)
MeshSign(fm) == -(2 * (IF fm THEN 1 ELSE 0) - 1)

\* the NORMAL element of one loop (float layout, FlipNormal clear): mirrored
NormalElem(n, fm) == n * MeshSign(fm)

\* one record <<POSITION.x, NORMAL.x>> per loop, stored at the loop's own index
BlenderToMigotoVertices(lp, fm) ==
    [l \in DOMAIN lp |->
        <<PositionCo(lp[l].vertex_index) * MeshSign(fm),
          NormalElem(lp[l].normal, fm)>>]

\* the row of migoto_verts that mesh_to_bin hashes for loop l
LoopRow(lp, l) == lp[l].vertex_index

\* variant: the loop's own index is the default handed to setdefault
RECURSIVE IndexLoopsByLoopIndex(_, _, _, _, _)
IndexLoopsByLoopIndex(mv, lp, l, d, out) ==
    IF l = NumLoops(lp) THEN [dict |-> d, ib_list |-> out]
    ELSE LET r == SetDefault(d, mv[LoopRow(lp, l)], l)
         IN  IndexLoopsByLoopIndex(mv, lp, l + 1, r.dict, Append(out, r.value))

\* the list comprehension over mesh.loops filling indexed_vertices
RECURSIVE IndexLoops(_, _, _, _, _)
IndexLoops(mv, lp, l, d, out) ==
    IF l = NumLoops(lp) THEN [dict |-> d, ib_list |-> out]
    ELSE LET r == SetDefault(d, mv[LoopRow(lp, l)], Len(d))
         IN  IndexLoops(mv, lp, l + 1, r.dict, Append(out, r.value))

\* NumpyBuffer.fromlist for the index layout: one row of three indices per triangle
FromList(l) ==
    [f \in 1 .. Len(l) \div 3 |-> <<l[3 * f - 2], l[3 * f - 1], l[3 * f]>>]

\* numpy.fliplr: every row reversed
FlipLR(data) == [f \in 1 .. Len(data) |-> Reverse(data[f])]

\* variant: either flag flips the winding
MeshToBinMustFlipOr(fm, fw) == fm \/ fw

\* main_obj.get("3DMigoto:FlipMesh") ^ main_obj.get("3DMigoto:FlipWinding")
MeshToBinMustFlip(fm, fw) == fm # fw

EmptyRun ==
    [migoto_verts |-> <<>>, indexed_vertices |-> <<>>, ib_list |-> <<>>,
     ib |-> <<>>, vb |-> <<>>, err |-> "none"]

\* the corners of every triangle in reversed order
FlippedLoops(lp) == [l \in DOMAIN lp |-> lp[3 * (l \div 3) + (2 - (l % 3))]]

\* variant: the winding is flipped before the corners are inserted
MeshToBinFlipBeforeInsert(lp, fm, fw) ==
    IF NumPolygons(lp) = 0 THEN EmptyRun
    ELSE
      LET mv == BlenderToMigotoVertices(lp, fm)
          order == IF MeshToBinMustFlip(fm, fw) THEN FlippedLoops(lp) ELSE lp
      IN  IF \E l \in DOMAIN lp : LoopRow(lp, l) \notin DOMAIN mv
          THEN [EmptyRun EXCEPT !.migoto_verts = mv, !.err = "IndexError"]
          ELSE
            LET r == IndexLoops(mv, order, 0, <<>>, <<>>)
            IN  [migoto_verts |-> mv,
                 indexed_vertices |-> r.dict,
                 ib_list |-> r.ib_list,
                 ib |-> FromList(r.ib_list),
                 vb |-> Keys(r.dict),
                 err |-> "none"]

MeshToBinResult(lp, fm, fw) ==
    IF NumPolygons(lp) = 0 THEN EmptyRun
    ELSE
      LET mv == BlenderToMigotoVertices(lp, fm)
      IN  IF \E l \in DOMAIN lp : LoopRow(lp, l) \notin DOMAIN mv
          THEN [EmptyRun EXCEPT !.migoto_verts = mv, !.err = "IndexError"]
          ELSE
            LET r == IndexLoops(mv, lp, 0, <<>>, <<>>)
                rows == FromList(r.ib_list)
            IN  [migoto_verts |-> mv,
                 indexed_vertices |-> r.dict,
                 ib_list |-> r.ib_list,
                 ib |-> IF MeshToBinMustFlip(fm, fw) THEN FlipLR(rows) ELSE rows,
                 vb |-> Keys(r.dict),
                 err |-> "none"]

----------------------------------------------------------------------------
(* blender_vertex_to_3dmigoto_vertex and export_3dmigoto *)

\* the None passed for a missing loop; loop indices are never negative
None == -1

\* normal_export_translation for a float (non-UNORM) layout
NormalExportTranslation(flip, x) == IF flip THEN -x ELSE x

\* operator.flip_normal of the exports modelled here
flip_normal == FALSE

\* blender_loop_vertex is a loop index or None; blender_vertex a vertex index
BlenderVertexTo3DMigotoVertex(lp, blender_loop_vertex, blender_vertex) ==
    IF blender_loop_vertex = None
    THEN \* blp_normal = list(blender_loop_vertex.normal)
         [raised |-> "AttributeError", vertex |-> <<>>]
    ELSE [raised |-> "none",
          vertex |-> <<PositionCo(lp[blender_loop_vertex].vertex_index),
                       NormalExportTranslation(flip_normal, lp[blender_loop_vertex].normal)>>]

\* operator.flip_winding decides face.reverse(); operator.flip_mesh is not read
Export3DMigotoMustFlip(fm, fw) == fw

\* the corners of polygon p from corner c on, with an index buffer
RECURSIVE FaceLoop(_, _, _, _, _)
FaceLoop(lp, p, c, d, face) ==
    IF c = 3 THEN [dict |-> d, face |-> face]
    ELSE LET vertex == BlenderVertexTo3DMigotoVertex(lp, 3 * p + c, None).vertex
             r == SetDefault(d, vertex, Len(d))
         IN  FaceLoop(lp, p, c + 1, r.dict, Append(face, r.value))

RECURSIVE PolyLoopIB(_, _, _, _, _, _, _)
PolyLoopIB(lp, fm, fw, p, d, faces, seen) ==
    IF p = NumPolygons(lp)
    THEN [migoto_verts |-> <<>>, indexed_vertices |-> d, ib_list |-> seen,
          ib |-> faces, vb |-> Keys(d), err |-> "none"]
    ELSE LET r == FaceLoop(lp, p, 0, d, <<>>)
             face == IF Export3DMigotoMustFlip(fm, fw)
                     THEN Reverse(r.face) ELSE r.face
         IN  PolyLoopIB(lp, fm, fw, p + 1, r.dict,
                        Append(faces, face), seen \o r.face)

\* without an index buffer every corner is appended to the vertex buffer
NoIBResult(lp, fw) ==
    IF fw /\ NumPolygons(lp) > 0
    THEN [EmptyRun EXCEPT !.err = "Fatal"]
    ELSE [EmptyRun EXCEPT !.vb =
            [i \in 1 .. NumLoops(lp) |->
                BlenderVertexTo3DMigotoVertex(lp, i - 1, None).vertex]]

\* the pointlist branch: one call per mesh vertex, with no loop
RECURSIVE PointLoop(_, _, _, _, _)
PointLoop(lp, hasib, index, vbacc, ibacc) ==
    IF index \notin Vertices
    THEN [EmptyRun EXCEPT !.vb = vbacc, !.ib = ibacc]
    ELSE LET r == BlenderVertexTo3DMigotoVertex(lp, None, index)
         IN  IF r.raised # "none"
             THEN [EmptyRun EXCEPT !.err = r.raised]
             ELSE PointLoop(lp, hasib, index + 1, Append(vbacc, r.vertex),
                            IF hasib THEN Append(ibacc, <<index>>) ELSE ibacc)

Export3DMigotoResult(lp, topo, hasib, fm, fw) ==
    IF topo = "trianglelist"
    THEN IF hasib
         THEN PolyLoopIB(lp, fm, fw, 0, <<>>, <<>>, <<>>)
         ELSE NoIBResult(lp, fw)
    ELSE PointLoop(lp, hasib, 0, <<>>, <<>>)

----------------------------------------------------------------------------
(* generate_mod_folder with collect_vb / collect_vb_single / collect_ib *)

ModFolderIdle ==
    /\ gm_pc = "load_hashes"
    /\ char_hash_len = 0
    /\ num = 0
    /\ object_count = 0
    /\ obj_i = 0
    /\ offset = 0
    /\ position = 0
    /\ position_stride = 1
    /\ collected = <<>>
    /\ ib_offsets = <<>>
    /\ ib_written = <<>>
    /\ total_verts = 0

GenIdle ==
    /\ gb_pc = "start"
    /\ components_len = 0
    /\ comp_i = 0
    /\ parts_len = 0
    /\ part_i = 0
    /\ objects_len = 0
    /\ entry_i = 0
    /\ ib_offset = 0
    /\ ib_buffer = <<>>
    /\ gen_ib = <<>>
    /\ emitted = 0
    /\ emitted_before = 0

CodecIdle ==
    /\ enc_pc = "input"
    /\ elem_format = "unorm8"
    /\ scaled4 = 0
    /\ encoded = 0

----------------------------------------------------------------------------
(* Actions of the single-object exporters *)

MeshIdle ==
    /\ op = "idle"
    /\ loops = <<>>
    /\ FlipMesh = FALSE
    /\ FlipWinding = FALSE
    /\ topology = "trianglelist"
    /\ has_ib = TRUE
    /\ migoto_verts = <<>>
    /\ indexed_vertices = <<>>
    /\ ib_list = <<>>
    /\ ib = <<>>
    /\ vb = <<>>
    /\ err = "none"

SetRun(r) ==
    /\ migoto_verts' = r.migoto_verts
    /\ indexed_vertices' = r.indexed_vertices
    /\ ib_list' = r.ib_list
    /\ ib' = r.ib
    /\ vb' = r.vb
    /\ err' = r.err

MeshToBin ==
    /\ op = "idle"
    /\ \E nt \in 0 .. MaxTris, fm \in BOOLEAN, fw \in BOOLEAN :
       \E tris \in TriangleLists(nt), nrm \in CornerNormals(nt) :
        /\ op' = "mesh_to_bin"
        /\ loops' = LoopsOf(tris, nrm)
        /\ FlipMesh' = fm
        /\ FlipWinding' = fw
        /\ SetRun(MeshToBinResult(LoopsOf(tris, nrm), fm, fw))
    /\ UNCHANGED <<topology, has_ib>>
    /\ UNCHANGED notMesh

\* a point list is a cloud of vertices: an object of that topology has no faces
ExportTris(topo) == IF topo = "pointlist" THEN 0 ELSE MaxTris

Export3DMigoto ==
    /\ op = "idle"
    /\ \E topo \in {"trianglelist", "pointlist"}, hasib \in BOOLEAN,
          fm \in BOOLEAN, fw \in BOOLEAN :
       \E nt \in 0 .. ExportTris(topo) :
       \E tris \in TriangleLists(nt), nrm \in CornerNormals(nt) :
        /\ op' = "export_3dmigoto"
        /\ loops' = LoopsOf(tris, nrm)
        /\ topology' = topo
        /\ has_ib' = hasib
        /\ FlipMesh' = fm
        /\ FlipWinding' = fw
        /\ SetRun(Export3DMigotoResult(LoopsOf(tris, nrm), topo, hasib, fm, fw))
    /\ UNCHANGED notMesh

\* the operator returns; the next export starts from a fresh mesh
Finish ==
    /\ op # "idle"
    /\ op' = "idle"
    /\ loops' = <<>>
    /\ FlipMesh' = FALSE
    /\ FlipWinding' = FALSE
    /\ topology' = "trianglelist"
    /\ has_ib' = TRUE
    /\ SetRun(EmptyRun)
    /\ UNCHANGED notMesh

NormalIdle ==
    /\ tn_pc = "input"
    /\ elem_name = "NORMAL"
    /\ norm_format = "float"
    /\ FlipNormal = FALSE
    /\ normal4 = 0
    /\ result4 = 0
    /\ norm_stored = 0

NoElem == [name |-> "none", SemanticIndex |-> 0, format_len |-> 0]

BlendIdle ==
    /\ bw_pc = "start"
    /\ has_deform = FALSE
    /\ weights = <<>>
    /\ normalize_weights = FALSE
    /\ weights_np = <<>>
    /\ blend_len = 0
    /\ elem = NoElem
    /\ elems_done = 0
    /\ blend_result = <<>>
    /\ blend_err = "none"

ExportIdle ==
    /\ ex_pc = "idle"
    /\ ex_step = 0
    /\ ex_components = 0
    /\ ex_comp = 0
    /\ ini_generated = FALSE
    /\ copy_textures = FALSE
    /\ files_to_write = <<>>
    /\ files_to_copy = <<>>
    /\ written_n = 0
    /\ copied_n = 0
    /\ raised_in = "none"

StrideIdle ==
    /\ sf_pc = "load_hashes"
    /\ sf_len = 0
    /\ sf_num = 0
    /\ game = "GenshinImpact"
    /\ blend_vb = FALSE
    /\ fmt_layout = <<>>
    /\ fmt_stride = 0
    /\ strides = <<>>
    /\ sf_objects = 0
    /\ sf_obj = 0
    /\ dest_files = {}

ConnIdle ==
    /\ rc_pc = "idle"
    /\ Over2_connected_points = <<>>
    /\ rc_result = FALSE

OutlineIdle ==
    /\ ol_pc = "idle"
    /\ polygons = <<>>
    /\ position_key = <<>>
    /\ undeformed_co = <<>>
    /\ angle_weighted = FALSE
    /\ overlapping_faces = FALSE
    /\ calculate_all_faces = FALSE
    /\ detect_edges = FALSE
    /\ Precalculated_Outline_data = [Same_Vertex |-> <<>>, RepositionLocal |-> {}]
    /\ edge_passes = <<>>
    /\ processed = <<>>
    /\ set_order = "ascending"
    /\ export_outline = <<>>
    /\ outline_vb = <<>>
    /\ outline_ib = <<>>
    /\ outline_err = "none"

CountIdle ==
    /\ vc_pc = "new"
    /\ mod_component = [parts |-> <<>>, vertex_count |-> 0]
    /\ output_position = 0
    /\ vc_part = 1
    /\ vc_entry = 1
    /\ gb_calls = 0

CollectIdle ==
    /\ cv_pc = "idle"
    /\ cv_fn = "collect_vb"
    /\ cv_data = <<>>
    /\ cv_strides = <<>>
    /\ cv_offset = 0
    /\ cv_i = 0
    /\ streams = <<>>
    /\ cv_passes = 0

Init ==
    /\ MeshIdle /\ ModFolderIdle /\ GenIdle /\ CodecIdle /\ NormalIdle
    /\ BlendIdle /\ ExportIdle /\ StrideIdle /\ ConnIdle
    /\ OutlineIdle
    /\ CountIdle /\ CollectIdle

Next == MeshToBin \/ Export3DMigoto \/ Finish

Spec == Init /\ [][Next]_vars

----------------------------------------------------------------------------
(* Properties of the single-object exporters *)

\* mesh_to_bin returned buffers for a mesh with polygons
BinDone == op = "mesh_to_bin" /\ err = "none" /\ NumPolygons(loops) > 0

\* export_3dmigoto returned from its deduplicating branch
ExportIBDone ==
    /\ op = "export_3dmigoto"
    /\ topology = "trianglelist"
    /\ has_ib
    /\ err = "none"
    /\ NumPolygons(loops) > 0

\* the record assembled for corner l itself
OwnRecord(l) == migoto_verts[l]

\* C1: in mesh_to_bin the index emitted for every corner l refers to a
\* vertex-buffer record equal to l's own assembled record migoto_verts[l.index].
C1_IndexRefersToOwnRecord ==
    BinDone => \A l \in DOMAIN loops : vb[ib_list[l + 1] + 1] = OwnRecord(l)

\* C2: in mesh_to_bin the number of vertex-buffer records equals the number of
\* distinct assembled corner records of the mesh.
C2_RecordCountIsDistinctCorners ==
    BinDone => Len(vb) = Cardinality({OwnRecord(l) : l \in DOMAIN loops})

\* the key handed to setdefault for the i-th traversed corner (1-based)
DedupKey(i) ==
    IF op = "mesh_to_bin"
    THEN migoto_verts[loops[i - 1].vertex_index]
    ELSE <<PositionCo(loops[i - 1].vertex_index), loops[i - 1].normal>>

\* the keys met strictly before the first occurrence of the i-th corner's key
KeysBeforeFirst(i) ==
    {DedupKey(j) : j \in {j \in 1 .. i : \A k \in 1 .. j : DedupKey(k) # DedupKey(i)}}

\* C3: in both deduplicating paths indices are assigned densely 0,1,2,... in
\* order of first insertion of a key, a key seen again gets the index of its
\* first insertion, and the vertex buffer lists every inserted key exactly once
\* in index order, so no two rows are identical.
C3_DenseFirstInsertionOrder ==
    (BinDone \/ ExportIBDone) =>
        /\ Len(ib_list) = NumLoops(loops)
        /\ \A i \in 1 .. Len(ib_list) :
            /\ ib_list[i] = Cardinality(KeysBeforeFirst(i))
            /\ vb[ib_list[i] + 1] = DedupKey(i)
        /\ Len(vb) = Cardinality({DedupKey(i) : i \in 1 .. Len(ib_list)})
        /\ \A a \in 1 .. Len(vb) : \A b \in 1 .. Len(vb) : a # b => vb[a] # vb[b]

\* a key met a second time, after another key was inserted in between
C3_Witness ==
    /\ BinDone \/ ExportIBDone
    /\ \E i \in 1 .. Len(ib_list) : \E j \in 1 .. Len(ib_list) :
        i + 1 < j /\ ib_list[i] = ib_list[j] /\ ib_list[i + 1] > ib_list[i]

\* face f of the index buffer is the f-th traversed triple, reversed or not
FaceIs(f, reversed) ==
    \A c \in 1 .. 3 :
        ib[f][c] = IF reversed THEN ib_list[3 * (f - 1) + (4 - c)]
                   ELSE ib_list[3 * (f - 1) + c]

\* C4: mesh_to_bin emits every index triple reversed exactly when FlipMesh XOR
\* FlipWinding holds on the main object, and in traversal order when both
\* flags are set or both are clear.
C4_BinReversedIffXor ==
    BinDone =>
        /\ Len(ib) = NumPolygons(loops)
        /\ \A f \in 1 .. Len(ib) :
            FaceIs(f, (FlipMesh /\ ~FlipWinding) \/ (~FlipMesh /\ FlipWinding))

\* both flags set, and a triple whose reversal would be visible
C4_Witness ==
    /\ BinDone
    /\ FlipMesh
    /\ FlipWinding
    /\ \E f \in 1 .. Len(ib) : ib[f][1] # ib[f][3]

\* C5: export_3dmigoto reverses a face's index order exactly when the object's
\* flip-mesh flag XOR its flip-winding flag is true.
C5_ExportReversedIffXor ==
    ExportIBDone =>
        \A f \in 1 .. Len(ib) :
            FaceIs(f, (FlipMesh /\ ~FlipWinding) \/ (~FlipMesh /\ FlipWinding))

\* the same run with only the winding-flip flag toggled
OtherWindingRun ==
    IF op = "mesh_to_bin"
    THEN MeshToBinResult(loops, FlipMesh, ~FlipWinding)
    ELSE Export3DMigotoResult(loops, topology, has_ib, FlipMesh, ~FlipWinding)

C7_PointListExports ==
    (op = "export_3dmigoto" /\ topology = "pointlist") =>
        /\ err = "none"
        /\ Len(vb) = Cardinality(Vertices)
        /\ has_ib => ib = [i \in 1 .. Cardinality(Vertices) |-> <<i - 1>>]

----------------------------------------------------------------------------
(* Steps of generate_mod_folder *)

\* the .ib file exported for a sub-object of n vertex records: every record once
IbFile(n) == [j \in 1 .. n |-> j - 1]

\* the bytes collect_vb / collect_vb_single add to position for n whole records
CollectVb(n, stride) == n * stride

\* collect_ib: every index of the file plus offset
CollectIb(data, off) == [j \in 1 .. Len(data) |-> data[j] + off]

\* offset += len(position) // position_stride
NextOffset(off, pos, stride) == off + pos \div stride

\* char_hash = load_hashes(path, character_name)
LoadHashes ==
    /\ gm_pc = "load_hashes"
    /\ \E n \in 1 .. MaxComponents : char_hash_len' = n
    /\ gm_pc' = "component"
    /\ UNCHANGED <<num, object_count, obj_i, offset, position, position_stride,
                   collected, ib_offsets, ib_written, total_verts>>
    /\ UNCHANGED notModFolder

\* a component without draw_vb: texture overrides only, then continue
TextureOnlyComponent ==
    /\ gm_pc = "component"
    /\ num < char_hash_len
    /\ num' = num + 1
    /\ UNCHANGED <<gm_pc, char_hash_len, object_count, obj_i, offset, position,
                   position_stride, collected, ib_offsets, ib_written,
                   total_verts>>
    /\ UNCHANGED notModFolder

\* the fmt file is read for the strides; offset and the merged buffers start empty
StartComponent ==
    /\ gm_pc = "component"
    /\ num < char_hash_len
    /\ \E n \in 1 .. MaxObjects, stride \in 1 .. MaxStride :
        /\ object_count' = n
        /\ position_stride' = stride
    /\ offset' = 0
    /\ position' = 0
    /\ collected' = <<>>
    /\ ib_offsets' = <<>>
    /\ obj_i' = 0
    /\ gm_pc' = "collect"
    /\ UNCHANGED <<char_hash_len, num, ib_written, total_verts>>
    /\ UNCHANGED notModFolder

\* one pass of the loop over the component's sub-objects
CollectObject ==
    /\ gm_pc = "collect"
    /\ obj_i < object_count
    /\ \E n \in 0 .. MaxRecs :
        LET grown == position + CollectVb(n, position_stride)
        IN  /\ position' = grown
            /\ ib_written' = CollectIb(IbFile(n), offset)
            /\ ib_offsets' = Append(ib_offsets, offset)
            /\ collected' = Append(collected, n)
            /\ offset' = NextOffset(offset, grown, position_stride)
    /\ obj_i' = obj_i + 1
    /\ UNCHANGED <<gm_pc, char_hash_len, num, object_count, position_stride,
                   total_verts>>
    /\ UNCHANGED notModFolder

\* total_verts is recorded and the merged buffers are written
FinishComponent ==
    /\ gm_pc = "collect"
    /\ obj_i = object_count
    /\ total_verts' = offset
    /\ num' = num + 1
    /\ gm_pc' = "component"
    /\ UNCHANGED <<char_hash_len, object_count, obj_i, offset, position,
                   position_stride, collected, ib_offsets, ib_written>>
    /\ UNCHANGED notModFolder

\* every component is done: the ini is generated and the function returns
GenerateIni ==
    /\ gm_pc = "component"
    /\ num = char_hash_len
    /\ gm_pc' = "done"
    /\ UNCHANGED <<char_hash_len, num, object_count, obj_i, offset, position,
                   position_stride, collected, ib_offsets, ib_written,
                   total_verts>>
    /\ UNCHANGED notModFolder

ModFolderNext ==
    \/ LoadHashes
    \/ TextureOnlyComponent
    \/ StartComponent
    \/ CollectObject
    \/ FinishComponent
    \/ GenerateIni

SpecModFolder == Init /\ [][ModFolderNext]_vars

RECURSIVE SumSeq(_)
SumSeq(s) == IF s = <<>> THEN 0 ELSE s[1] + SumSeq(Tail(s))

\* C8: the offset collect_ib adds to the indices of the k-th sub-object of a
\* component equals the number of vertex records collected from the
\* sub-objects before it, and the recorded total_verts equals the component's
\* total number of vertex records.
C8_OffsetIsRecordsBefore ==
    /\ \A k \in 1 .. Len(ib_offsets) :
        ib_offsets[k] = SumSeq(SubSeq(collected, 1, k - 1))
    /\ (gm_pc = "component" /\ Len(collected) > 0) =>
        total_verts = SumSeq(collected)

----------------------------------------------------------------------------
(* Steps of ModExporter.generate_buffers *)

\* gen_buffers["IB"].data["INDEX"] += ib_offset
AddIbOffset(data, off) == [j \in 1 .. Len(data) |-> data[j] + off]

\* variant: the offset is overwritten by the last count
NextIbOffsetAssigned(off, v_count) == v_count

\* ib_offset += v_count
NextIbOffset(off, v_count) == off + v_count

\* files_to_write and files_to_copy are emptied; the loop over components starts
GenerateBuffers ==
    /\ gb_pc = "start"
    /\ \E n \in 1 .. MaxComponents : components_len' = n
    /\ comp_i' = 0
    /\ gb_pc' = "component"
    /\ UNCHANGED <<parts_len, part_i, objects_len, entry_i, ib_offset, ib_buffer,
                   gen_ib, emitted, emitted_before>>
    /\ UNCHANGED notGen

\* a component starts with empty output buffers and ib_offset = 0
BeginComponent ==
    /\ gb_pc = "component"
    /\ comp_i < components_len
    /\ \E n \in 1 .. MaxParts : parts_len' = n
    /\ part_i' = 0
    /\ ib_offset' = 0
    /\ emitted' = 0
    /\ gb_pc' = "part"
    /\ UNCHANGED <<components_len, comp_i, objects_len, entry_i, ib_buffer, gen_ib,
                   emitted_before>>
    /\ UNCHANGED notGen

\* a part starts with ib_buffer = None
BeginPart ==
    /\ gb_pc = "part"
    /\ part_i < parts_len
    /\ \E n \in 1 .. MaxEntries : objects_len' = n
    /\ entry_i' = 0
    /\ ib_buffer' = <<>>
    /\ gb_pc' = "entry"
    /\ UNCHANGED <<components_len, comp_i, parts_len, part_i, ib_offset, gen_ib,
                   emitted, emitted_before>>
    /\ UNCHANGED notGen

\* len(entry.obj.data.polygons) == 0: continue
SkipEntry ==
    /\ gb_pc = "entry"
    /\ entry_i < objects_len
    /\ entry_i' = entry_i + 1
    /\ UNCHANGED <<gb_pc, components_len, comp_i, parts_len, part_i, objects_len,
                   ib_offset, ib_buffer, gen_ib, emitted, emitted_before>>
    /\ UNCHANGED notGen

\* get_data returns v_count vertices and their index data, which is merged
ProcessEntry ==
    /\ gb_pc = "entry"
    /\ entry_i < objects_len
    /\ \E v_count \in 1 .. MaxRecs :
        LET data == AddIbOffset(IbFile(v_count), ib_offset)
        IN  /\ gen_ib' = data
            /\ ib_buffer' = ib_buffer \o data
            /\ ib_offset' = NextIbOffset(ib_offset, v_count)
            /\ emitted' = emitted + v_count
    /\ emitted_before' = emitted
    /\ entry_i' = entry_i + 1
    /\ UNCHANGED <<gb_pc, components_len, comp_i, parts_len, part_i, objects_len>>
    /\ UNCHANGED notGen

\* the part's textures are listed and its .ib is queued unless ib_buffer is None
EndPart ==
    /\ gb_pc = "entry"
    /\ entry_i = objects_len
    /\ part_i' = part_i + 1
    /\ gb_pc' = "part"
    /\ UNCHANGED <<components_len, comp_i, parts_len, objects_len, entry_i,
                   ib_offset, ib_buffer, gen_ib, emitted, emitted_before>>
    /\ UNCHANGED notGen

\* the component's merged buffers are queued
EndComponent ==
    /\ gb_pc = "part"
    /\ part_i = parts_len
    /\ comp_i' = comp_i + 1
    /\ gb_pc' = "component"
    /\ UNCHANGED <<components_len, parts_len, part_i, objects_len, entry_i,
                   ib_offset, ib_buffer, gen_ib, emitted, emitted_before>>
    /\ UNCHANGED notGen

\* the loop over components is over
BuffersGenerated ==
    /\ gb_pc = "component"
    /\ comp_i = components_len
    /\ gb_pc' = "done"
    /\ UNCHANGED <<components_len, comp_i, parts_len, part_i, objects_len, entry_i,
                   ib_offset, ib_buffer, gen_ib, emitted, emitted_before>>
    /\ UNCHANGED notGen

GenNext ==
    \/ GenerateBuffers
    \/ BeginComponent
    \/ BeginPart
    \/ SkipEntry
    \/ ProcessEntry
    \/ EndPart
    \/ EndComponent
    \/ BuffersGenerated

SpecGenerateBuffers == Init /\ [][GenNext]_vars

\* C9: in generate_buffers the offset added to every index of a sub-object
\* equals the number of vertices emitted by the sub-objects processed before it
\* in the same component, across all its earlier parts; the offset restarts
\* at 0 for each component and sub-objects without polygons add nothing.
C9_OffsetIsEmittedBefore ==
    /\ ib_offset = emitted
    /\ \A j \in 1 .. Len(gen_ib) : gen_ib[j] = (j - 1) + emitted_before

\* a sub-object of a later part whose indices were shifted by earlier parts
C9_Witness ==
    /\ gb_pc = "entry"
    /\ comp_i >= 1
    /\ part_i >= 1
    /\ Len(ib_buffer) = Len(gen_ib)
    /\ Len(gen_ib) > 1
    /\ emitted_before >= 2
    /\ gen_ib[1] = emitted_before

----------------------------------------------------------------------------
(* The normalized-integer encoding of blender_to_migoto_vertices *)

Formats == {"unorm16", "unorm8", "snorm16", "snorm8"}

\* bit width of the numpy integer type of a format
Width(f) == IF f \in {"unorm16", "snorm16"} THEN 16 ELSE 8

Signed(f) == f \in {"snorm16", "snorm8"}

RECURSIVE Pow2(_)
Pow2(n) == IF n = 0 THEN 1 ELSE 2 * Pow2(n - 1)

\* the range of numpy.uint16, numpy.uint8, numpy.int16, numpy.int8
TypeMin(f) == IF Signed(f) THEN -Pow2(Width(f) - 1) ELSE 0

TypeMax(f) == IF Signed(f) THEN Pow2(Width(f) - 1) - 1 ELSE Pow2(Width(f)) - 1

\* numpy.round of q4 / 4: to the nearest integer, halves to the even neighbour
NumpyRound(q4) ==
    LET fl == q4 \div 4
        r == q4 % 4
    IN  IF r < 2 THEN fl
        ELSE IF r > 2 THEN fl + 1
        ELSE IF fl % 2 = 0 THEN fl ELSE fl + 1

\* the integer v reduced modulo 2^w into the range of the type
Wrap(v, f) ==
    LET m == v % Pow2(Width(f))
    IN  IF Signed(f) /\ m > TypeMax(f) THEN m - Pow2(Width(f)) ELSE m

\* ndarray.astype to the integer type: the value itself when it fits; a C cast
\* of an out-of-range float otherwise, which truncates the converted integer
\* or, for a negative value and an unsigned type, yields 0 on some targets
Astype(v, f) ==
    IF v >= TypeMin(f) /\ v <= TypeMax(f) THEN {v}
    ELSE {Wrap(v, f)} \cup (IF ~Signed(f) /\ v < 0 THEN {0} ELSE {})

\* the scaled values tried: within Window of both ends of the type's range
ScaledValues(f) ==
    {4 * c + d : c \in {TypeMin(f), TypeMax(f)}, d \in -4 * Window .. 4 * Window}

\* numpy.round(result * scale).astype(type) for one component of one element
EncodeElement ==
    /\ enc_pc = "input"
    /\ \E f \in Formats :
        \E q4 \in ScaledValues(f) :
        \E out \in Astype(NumpyRound(q4), f) :
            /\ elem_format' = f
            /\ scaled4' = q4
            /\ encoded' = out
    /\ enc_pc' = "encoded"
    /\ UNCHANGED notCodec

\* the next element of the layout
NextElement ==
    /\ enc_pc = "encoded"
    /\ enc_pc' = "input"
    /\ elem_format' = "unorm8"
    /\ scaled4' = 0
    /\ encoded' = 0
    /\ UNCHANGED notCodec

CodecNext == EncodeElement \/ NextElement

SpecCodec == Init /\ [][CodecNext]_vars

\* the nearest bound of the target range, or v itself when it is inside
Clamped(v, f) ==
    IF v < TypeMin(f) THEN TypeMin(f)
    ELSE IF v > TypeMax(f) THEN TypeMax(f)
    ELSE v

\* C10: a scaled value outside the target integer range of a UNorm8, UNorm16,
\* SNorm8 or SNorm16 element is encoded as the nearest bound of that range;
\* it never wraps around modulo 2^8 or 2^16.
C10_OutOfRangeIsClamped ==
    (/\ enc_pc = "encoded"
     /\ \/ scaled4 < 4 * TypeMin(elem_format)
        \/ scaled4 > 4 * TypeMax(elem_format))
        => encoded = Clamped(NumpyRound(scaled4), elem_format)

\* the integer nearest to q4 / 4, a value halfway between two integers going
\* to the one farther from zero
RoundHalfAway(q4) ==
    IF q4 >= 0 THEN (q4 + 2) \div 4 ELSE -((2 - q4) \div 4)

\* C11: a scaled value lying exactly halfway between two integers is encoded
\* as the neighbour farther from zero (0.5 encodes to 1, 2.5 to 3), for every
\* UNorm and SNorm format.
C11_HalfwayRoundsAwayFromZero ==
    (/\ enc_pc = "encoded"
     /\ scaled4 % 4 = 2
     /\ scaled4 >= 4 * TypeMin(elem_format)
     /\ scaled4 <= 4 * TypeMax(elem_format))
        => encoded = RoundHalfAway(scaled4)

----------------------------------------------------------------------------
(* NORMAL and TANGENT elements of blender_to_migoto_vertices *)

\* the components of a unit direction, in quarters: -1, -3/4, ..., 1
Components4 == -4 .. 4

NormalFormats == Formats \cup {"float"}

\* elem.Format.upper().endswith("_UNORM")
IsUnorm(f) == f \in {"unorm16", "unorm8"}

\* the factor result is multiplied by before numpy.round
Scale(f) ==
    IF f = "unorm16" THEN 65535
    ELSE IF f = "unorm8" THEN 255
    ELSE IF f = "snorm16" THEN 32767
    ELSE 127

\* x / 2 + 1 / 2 in eighths, for x = x4 / 4
HalfPlusHalf8(x4) == x4 + 4

\* four times what the NORMAL and TANGENT branches leave in a y or z component:
\* result = -result under FlipNormal, then result = result * 2 - 1 for UNorm
TranslateNormal(x4, flip, f) ==
    LET r == IF flip THEN -x4 ELSE x4
    IN  IF IsUnorm(f) THEN r * 2 - 4 ELSE r

\* one NORMAL or TANGENT element: the component is translated, then encoded
\* by numpy.round(result * scale).astype(type) when the format is normalized
FillNormalElement ==
    /\ tn_pc = "input"
    /\ \E nm \in {"NORMAL", "TANGENT"}, f \in NormalFormats,
          flip \in BOOLEAN, x4 \in Components4 :
        LET r4 == TranslateNormal(x4, flip, f)
        IN  /\ elem_name' = nm
            /\ norm_format' = f
            /\ FlipNormal' = flip
            /\ normal4' = x4
            /\ result4' = r4
            /\ IF f = "float"
               THEN norm_stored' = r4
               ELSE \E out \in Astype(NumpyRound(r4 * Scale(f)), f) :
                        norm_stored' = out
    /\ tn_pc' = "stored"
    /\ UNCHANGED notNormal

\* the next element of the layout
NextNormalElement ==
    /\ tn_pc = "stored"
    /\ tn_pc' = "input"
    /\ elem_name' = "NORMAL"
    /\ norm_format' = "float"
    /\ FlipNormal' = FALSE
    /\ normal4' = 0
    /\ result4' = 0
    /\ norm_stored' = 0
    /\ UNCHANGED notNormal

NormalNext == FillNormalElement \/ NextNormalElement

SpecNormal == Init /\ [][NormalNext]_vars

\* C12: a component x in [-1, 1] of a NORMAL or TANGENT element with a UNorm
\* format is remapped to x / 2 + 0.5 before quantization, and to -x / 2 + 0.5
\* when the flip-normal flag is set.
C12_UnormRemapIsHalfPlusHalf ==
    (tn_pc = "stored" /\ IsUnorm(norm_format)) =>
        2 * result4 = HalfPlusHalf8(IF FlipNormal THEN -normal4 ELSE normal4)

----------------------------------------------------------------------------
(* BLENDWEIGHT and BLENDINDICES elements of blender_to_migoto_vertices *)

\* largest number of vertex groups a vertex is assigned to
MaxGroups == 5

\* largest number of blend elements of a layout
MaxBlendElems == 2

\* largest semantic index of a blend element
MaxSemanticIndex == 1

\* verts: loop.vertex_index of the loops of a mesh of one triangle
BlendVerts == <<2, 3, 1>>

\* elem.format_len of the blend elements tried
BlendLens == {2, 4}

BlendElems ==
    [name : {"BLENDWEIGHT", "BLENDINDICES"},
     SemanticIndex : 0 .. MaxSemanticIndex,
     format_len : BlendLens]

\* v[layer_deform].items() of a vertex assigned to groups 0 .. n-1, whose
\* weights grow with the group ("up") or are all equal ("flat")
DeformItems(n, pattern) ==
    [i \in 1 .. n |-> <<i - 1, IF pattern = "up" THEN i ELSE 1>>]

\* one step of sorted(..., key=item[1], reverse=True): x goes behind every
\* pair of s that is at least as heavy (the sort is stable)
RECURSIVE InsertByWeight(_, _)
InsertByWeight(s, x) ==
    IF s = <<>> THEN <<x>>
    ELSE IF s[1][2] >= x[2] THEN <<s[1]>> \o InsertByWeight(Tail(s), x)
    ELSE <<x>> \o s

RECURSIVE SortedByWeight(_)
SortedByWeight(items) ==
    IF items = <<>> THEN <<>>
    ELSE InsertByWeight(SortedByWeight(SubSeq(items, 1, Len(items) - 1)),
                        items[Len(items)])

\* a row of weights_np: numpy.zeros, then slot i takes pair i of the vertex;
\* the IndexError of a slot past format_len is swallowed
WeightsNpRow(vert, format_len) ==
    [INDEX |-> [i \in 1 .. format_len |->
                    IF i <= Len(vert) THEN vert[i][1] ELSE 0],
     WEIGHT |-> [i \in 1 .. format_len |->
                    IF i <= Len(vert) THEN vert[i][2] ELSE 0]]

WeightsNp(w, format_len) == [v \in DOMAIN w |-> WeightsNpRow(w[v], format_len)]

RECURSIVE RowSum(_)
RowSum(s) == IF s = <<>> THEN 0 ELSE s[1] + RowSum(Tail(s))

\* result / numpy.sum(result, axis=1)[:, None]; a weight is <<num, den>>, and
\* a division by zero leaves den = 0 (nan)
NormalizeRow(row, normalize) ==
    [i \in DOMAIN row |-> <<row[i], IF normalize THEN RowSum(row) ELSE 1>>]

\* result[idxs] = weights_np[field][verts]
BlendResult(wnp, e, normalize) ==
    [l \in DOMAIN BlendVerts |->
        IF e.name = "BLENDWEIGHT"
        THEN NormalizeRow(wnp[BlendVerts[l]].WEIGHT, normalize)
        ELSE wnp[BlendVerts[l]].INDEX]

\* the head of blender_to_migoto_vertices for a mesh with polygons: the
\* weights of every vertex, sorted by descending weight
ReadWeights ==
    /\ bw_pc = "start"
    /\ \E deform \in BOOLEAN, normalize \in BOOLEAN, pattern \in {"up", "flat"} :
        \E n \in [DOMAIN BlendVerts -> 0 .. MaxGroups] :
            /\ deform \/ (pattern = "up" /\ \A v \in DOMAIN n : n[v] = 0)
            /\ has_deform' = deform
            /\ normalize_weights' = normalize
            /\ weights' = IF deform
                          THEN [v \in DOMAIN n |->
                                    SortedByWeight(DeformItems(n[v], pattern))]
                          ELSE <<>>
    /\ bw_pc' = "elements"
    /\ UNCHANGED <<weights_np, blend_len, elem, elems_done, blend_result,
                   blend_err>>
    /\ UNCHANGED notBlend

\* one BLENDWEIGHT or BLENDINDICES element of the layout
BlendElement ==
    /\ bw_pc = "elements"
    /\ elems_done < MaxBlendElems
    /\ \E e \in BlendElems :
        LET first == weights_np = <<>>
            wnp == IF first THEN WeightsNp(weights, e.format_len) ELSE weights_np
            len == IF first THEN e.format_len ELSE blend_len
        IN  /\ elem' = e
            /\ elems_done' = elems_done + 1
            /\ IF first /\ ~has_deform
               THEN /\ blend_err' = "Fatal"
                    /\ bw_pc' = "raised"
                    /\ UNCHANGED <<weights_np, blend_len, blend_result>>
               ELSE IF e.format_len # len
               THEN /\ blend_err' = "ValueError"
                    /\ bw_pc' = "raised"
                    /\ UNCHANGED <<weights_np, blend_len, blend_result>>
               ELSE /\ weights_np' = wnp
                    /\ blend_len' = len
                    /\ blend_result' = BlendResult(wnp, e, normalize_weights)
                    /\ UNCHANGED <<bw_pc, blend_err>>
    /\ UNCHANGED <<has_deform, weights, normalize_weights>>
    /\ UNCHANGED notBlend

\* the end of the layout: migoto_verts is returned
BlendReturn ==
    /\ bw_pc = "elements"
    /\ bw_pc' = "returned"
    /\ UNCHANGED <<has_deform, weights, normalize_weights, weights_np,
                   blend_len, elem, elems_done, blend_result, blend_err>>
    /\ UNCHANGED notBlend

\* the next call
BlendAgain ==
    /\ bw_pc \in {"returned", "raised"}
    /\ bw_pc' = "start"
    /\ has_deform' = FALSE
    /\ weights' = <<>>
    /\ normalize_weights' = FALSE
    /\ weights_np' = <<>>
    /\ blend_len' = 0
    /\ elem' = NoElem
    /\ elems_done' = 0
    /\ blend_result' = <<>>
    /\ blend_err' = "none"
    /\ UNCHANGED notBlend

BlendNext == ReadWeights \/ BlendElement \/ BlendReturn \/ BlendAgain

SpecBlend == Init /\ [][BlendNext]_vars

\* pair number i (from 0) of a sorted weight list, (0, 0.0) past its end
PairAt(vert, i) == IF i + 1 <= Len(vert) THEN vert[i + 1] ELSE <<0, 0>>

\* block k of four pairs of a sorted weight list: positions 4k .. 4k+3
Block4(vert, k) == [j \in 1 .. 4 |-> PairAt(vert, 4 * k + j - 1)]

\* C13: a BLENDWEIGHT or BLENDINDICES element with semantic index k is filled,
\* for every loop, from the pairs at positions 4k .. 4k+3 of the sorted weight
\* list of the loop's vertex, missing slots being (0, 0.0).
C13_BlendElementReadsItsBlock ==
    (/\ bw_pc = "elements"
     /\ elems_done > 0
     /\ elem.format_len = 4
     /\ ~normalize_weights) =>
        \A l \in DOMAIN BlendVerts :
            LET block == Block4(weights[BlendVerts[l]], elem.SemanticIndex)
            IN  \A j \in 1 .. 4 :
                    blend_result[l][j] =
                        IF elem.name = "BLENDWEIGHT"
                        THEN <<block[j][2], 1>>
                        ELSE block[j][1]

\* C14: when a blend-weight element has been processed and some vertex has no
\* bone assignment, the call has failed with a fatal error.
C14_UnweightedVertexIsFatal ==
    (/\ elems_done > 0
     /\ elem.name = "BLENDWEIGHT"
     /\ \/ ~has_deform
        \/ \E v \in DOMAIN weights : weights[v] = <<>>)
        => (bw_pc = "raised" /\ blend_err = "Fatal")

----------------------------------------------------------------------------
(* ModExporter.export *)

\* largest number of components of a mod file
MaxExportComponents == 2

\* the body of export, with write_files moved before generate_ini
ExportBodyWritesEarly == <<"generate_buffers", "write_files", "generate_ini">>

\* the body of export: the three calls in their order
ExportBody == <<"generate_buffers", "generate_ini", "write_files">>

\* the call export is at
ExportPhase ==
    IF ex_pc = "running" /\ ex_step \in DOMAIN ExportBody
    THEN ExportBody[ex_step] ELSE "none"

\* export is called; generate_buffers empties both dictionaries
Export ==
    /\ ex_pc = "idle"
    /\ \E n \in 1 .. MaxExportComponents, ct \in BOOLEAN :
        /\ ex_components' = n
        /\ copy_textures' = ct
    /\ ex_pc' = "running"
    /\ ex_step' = 1
    /\ files_to_write' = <<>>
    /\ files_to_copy' = <<>>
    /\ UNCHANGED <<ex_comp, ini_generated, written_n, copied_n, raised_in>>
    /\ UNCHANGED notExport

\* one component of generate_buffers: verify_mesh_requirements raises Fatal, or
\* the component's textures, .ib (when it has index data) and .buf are queued
ExportComponent ==
    /\ ExportPhase = "generate_buffers"
    /\ ex_comp < ex_components
    /\ \E ok \in BOOLEAN, has_index \in BOOLEAN :
        IF ~ok
        THEN /\ ex_pc' = "raised"
             /\ raised_in' = "generate_buffers"
             /\ UNCHANGED <<ex_comp, files_to_write, files_to_copy>>
        ELSE /\ ex_comp' = ex_comp + 1
             /\ files_to_copy' = Append(files_to_copy, <<"tex", ex_comp>>)
             /\ files_to_write' =
                    files_to_write
                    \o (IF has_index THEN << <<"ib", ex_comp>> >> ELSE <<>>)
                    \o << <<"buf", ex_comp>> >>
             /\ UNCHANGED <<ex_pc, raised_in>>
    /\ UNCHANGED <<ex_step, ex_components, ini_generated, copy_textures,
                   written_n, copied_n>>
    /\ UNCHANGED notExport

\* generate_buffers returns
ExportBuffersDone ==
    /\ ExportPhase = "generate_buffers"
    /\ ex_comp = ex_components
    /\ ex_step' = ex_step + 1
    /\ UNCHANGED <<ex_pc, ex_components, ex_comp, ini_generated, copy_textures,
                   files_to_write, files_to_copy, written_n, copied_n,
                   raised_in>>
    /\ UNCHANGED notExport

\* generate_ini: the rendered text is queued, or the template fails to load
ExportGenerateIni ==
    /\ ExportPhase = "generate_ini"
    /\ \E ok \in BOOLEAN :
        IF ~ok
        THEN /\ ex_pc' = "raised"
             /\ raised_in' = "generate_ini"
             /\ UNCHANGED <<ex_step, ini_generated, files_to_write>>
        ELSE /\ ini_generated' = TRUE
             /\ files_to_write' = Append(files_to_write, <<"ini", 0>>)
             /\ ex_step' = ex_step + 1
             /\ UNCHANGED <<ex_pc, raised_in>>
    /\ UNCHANGED <<ex_components, ex_comp, copy_textures, files_to_copy,
                   written_n, copied_n>>
    /\ UNCHANGED notExport

\* write_files, first loop: the next file is written, or an OSError is
\* turned into Fatal
ExportWriteFile ==
    /\ ExportPhase = "write_files"
    /\ written_n < Len(files_to_write)
    /\ \E ok \in BOOLEAN :
        IF ~ok
        THEN /\ ex_pc' = "raised"
             /\ raised_in' = "write_files"
             /\ UNCHANGED written_n
        ELSE /\ written_n' = written_n + 1
             /\ UNCHANGED <<ex_pc, raised_in>>
    /\ UNCHANGED <<ex_step, ex_components, ex_comp, ini_generated,
                   copy_textures, files_to_write, files_to_copy, copied_n>>
    /\ UNCHANGED notExport

\* write_files, second loop: the next texture is copied
ExportCopyTexture ==
    /\ ExportPhase = "write_files"
    /\ written_n = Len(files_to_write)
    /\ copy_textures
    /\ copied_n < Len(files_to_copy)
    /\ \E ok \in BOOLEAN :
        IF ~ok
        THEN /\ ex_pc' = "raised"
             /\ raised_in' = "write_files"
             /\ UNCHANGED copied_n
        ELSE /\ copied_n' = copied_n + 1
             /\ UNCHANGED <<ex_pc, raised_in>>
    /\ UNCHANGED <<ex_step, ex_components, ex_comp, ini_generated,
                   copy_textures, files_to_write, files_to_copy, written_n>>
    /\ UNCHANGED notExport

\* write_files returns
ExportWritten ==
    /\ ExportPhase = "write_files"
    /\ written_n = Len(files_to_write)
    /\ ~copy_textures \/ copied_n = Len(files_to_copy)
    /\ ex_step' = ex_step + 1
    /\ UNCHANGED <<ex_pc, ex_components, ex_comp, ini_generated, copy_textures,
                   files_to_write, files_to_copy, written_n, copied_n,
                   raised_in>>
    /\ UNCHANGED notExport

\* export returns
ExportReturn ==
    /\ ex_pc = "running"
    /\ ex_step > Len(ExportBody)
    /\ ex_pc' = "done"
    /\ UNCHANGED <<ex_step, ex_components, ex_comp, ini_generated,
                   copy_textures, files_to_write, files_to_copy, written_n,
                   copied_n, raised_in>>
    /\ UNCHANGED notExport

\* the exporter is discarded; a later export starts from a new one
ExportAgain ==
    /\ ex_pc \in {"done", "raised"}
    /\ ex_pc' = "idle"
    /\ ex_step' = 0
    /\ ex_components' = 0
    /\ ex_comp' = 0
    /\ ini_generated' = FALSE
    /\ copy_textures' = FALSE
    /\ files_to_write' = <<>>
    /\ files_to_copy' = <<>>
    /\ written_n' = 0
    /\ copied_n' = 0
    /\ raised_in' = "none"
    /\ UNCHANGED notExport

ExportNext ==
    \/ Export
    \/ ExportComponent
    \/ ExportBuffersDone
    \/ ExportGenerateIni
    \/ ExportWriteFile
    \/ ExportCopyTexture
    \/ ExportWritten
    \/ ExportReturn
    \/ ExportAgain

SpecExport == Init /\ [][ExportNext]_vars

\* C15: export writes no file and copies no texture until the buffers of every
\* component and the ini text have been generated; when generate_buffers
\* raises, that export call has written and copied nothing.
C15_NoOutputBeforeGeneration ==
    /\ (written_n > 0 \/ copied_n > 0) =>
            (ex_comp = ex_components /\ ini_generated)
    /\ raised_in \in {"generate_buffers", "generate_ini"} =>
            (written_n = 0 /\ copied_n = 0)

\* an export of two components that wrote their files and copied a texture
C15_Witness ==
    /\ ex_components > 1
    /\ written_n > 2
    /\ copied_n > 0

----------------------------------------------------------------------------
(* The fmt stride check of generate_mod_folder and the files it writes *)

\* largest number of elements of a fmt file
MaxElements == 2

\* largest number of sub-objects of a component
MaxSubObjects == 2

Games == {"GenshinImpact", "HonkaiImpactPart2"}

SemanticNames == {"POSITION", "BLENDINDICES", "TEXCOORD", "COLOR", "BINORMAL"}

\* byte sizes of the elements tried
ElementSizes == {4, 8}

\* an element of the layout; reused_offset marks an element that shares the
\* input slot and byte offset of the element before it
Elements ==
    [SemanticName : SemanticNames, size : ElementSizes, reused_offset : BOOLEAN]

\* the layouts tried: the first element of a layout aliases nothing
Layouts ==
    UNION {{l \in [1 .. n -> Elements] : ~l[1].reused_offset} :
                n \in 1 .. MaxElements}

\* the strides a fmt file may declare
DeclaredStrides == {4 * k : k \in 1 .. 2 * MaxElements}

\* element.size()
ElementSize(element) == element.size

\* the buffer an element is counted in: 1 position, 2 blend, 3 texcoord, 0 none
StrideSlot(g, name) ==
    IF g = "HonkaiImpactPart2"
    THEN IF name \in {"POSITION", "NORMAL", "COLOR", "TANGENT"} THEN 1
         ELSE IF name \in {"BLENDWEIGHT", "BLENDWEIGHTS", "BLENDINDICES"} THEN 2
         ELSE IF name \in {"TEXCOORD"} THEN 3
         ELSE 0
    ELSE IF name \in {"POSITION", "NORMAL", "TANGENT"} THEN 1
         ELSE IF name \in {"BLENDWEIGHT", "BLENDWEIGHTS", "BLENDINDICES"} THEN 2
         ELSE IF name \in {"COLOR", "TEXCOORD"} THEN 3
         ELSE 0

\* the loop over fmt_layout from element k on: every element it yields adds
\* its size to the stride of its buffer
RECURSIVE AddStrides(_, _, _, _)
AddStrides(g, layout, k, acc) ==
    IF k > Len(layout) THEN acc
    ELSE LET slot == StrideSlot(g, layout[k].SemanticName)
         IN  AddStrides(g, layout, k + 1,
                        IF slot = 0 THEN acc
                        ELSE [acc EXCEPT ![slot] = @ + ElementSize(layout[k])])

\* assert fmt_layout.stride == total
StrideAccepted(declared, st) == declared = st[1] + st[2] + st[3]

\* char_hash = load_hashes(path, character_name)
StrideLoadHashes ==
    /\ sf_pc = "load_hashes"
    /\ \E n \in 1 .. MaxComponents : sf_len' = n
    /\ sf_pc' = "component"
    /\ UNCHANGED <<sf_num, game, blend_vb, fmt_layout, fmt_stride, strides,
                   sf_objects, sf_obj, dest_files>>
    /\ UNCHANGED notStride

\* a component without draw_vb: texture overrides only
StrideTextureOnly ==
    /\ sf_pc = "component"
    /\ sf_num < sf_len
    /\ sf_num' = sf_num + 1
    /\ UNCHANGED <<sf_pc, sf_len, game, blend_vb, fmt_layout, fmt_stride,
                   strides, sf_objects, sf_obj, dest_files>>
    /\ UNCHANGED notStride

\* the fmt file of a component without blend data: only its stride is read
ReadFmtStride ==
    /\ sf_pc = "component"
    /\ sf_num < sf_len
    /\ \E declared \in DeclaredStrides, n \in 1 .. MaxSubObjects :
        /\ fmt_stride' = declared
        /\ strides' = <<declared>>
        /\ sf_objects' = n
    /\ blend_vb' = FALSE
    /\ fmt_layout' = <<>>
    /\ sf_obj' = 0
    /\ sf_pc' = "objects"
    /\ UNCHANGED <<sf_len, sf_num, game, dest_files>>
    /\ UNCHANGED notStride

\* the fmt file of a blend component: the layout is parsed, the three strides
\* are summed and compared with the declared stride
ParseFmtLayout ==
    /\ sf_pc = "component"
    /\ sf_num < sf_len
    /\ \E g \in Games, layout \in Layouts, declared \in DeclaredStrides,
          n \in 1 .. MaxSubObjects :
        LET st == AddStrides(g, layout, 1, <<0, 0, 0>>)
        IN  /\ game' = g
            /\ fmt_layout' = layout
            /\ fmt_stride' = declared
            /\ strides' = st
            /\ sf_objects' = n
            /\ sf_pc' = IF StrideAccepted(declared, st)
                        THEN "objects" ELSE "raised"
    /\ blend_vb' = TRUE
    /\ sf_obj' = 0
    /\ UNCHANGED <<sf_len, sf_num, dest_files>>
    /\ UNCHANGED notStride

\* one sub-object: its buffers are collected and its .ib file is written
WriteObjectIb ==
    /\ sf_pc = "objects"
    /\ sf_obj < sf_objects
    /\ dest_files' = dest_files \cup {<<"ib", sf_num, sf_obj>>}
    /\ sf_obj' = sf_obj + 1
    /\ UNCHANGED <<sf_pc, sf_len, sf_num, game, blend_vb, fmt_layout,
                   fmt_stride, strides, sf_objects>>
    /\ UNCHANGED notStride

\* the merged buffers of the component are written
WriteComponentBuffers ==
    /\ sf_pc = "objects"
    /\ sf_obj = sf_objects
    /\ dest_files' =
            dest_files \cup
            (IF blend_vb
             THEN {<<"Position.buf", sf_num, 0>>, <<"Blend.buf", sf_num, 0>>,
                   <<"Texcoord.buf", sf_num, 0>>}
             ELSE {<<".buf", sf_num, 0>>})
    /\ sf_num' = sf_num + 1
    /\ sf_pc' = "component"
    /\ UNCHANGED <<sf_len, game, blend_vb, fmt_layout, fmt_stride, strides,
                   sf_objects, sf_obj>>
    /\ UNCHANGED notStride

\* every component is done
StrideDone ==
    /\ sf_pc = "component"
    /\ sf_num = sf_len
    /\ sf_pc' = "done"
    /\ UNCHANGED <<sf_len, sf_num, game, blend_vb, fmt_layout, fmt_stride,
                   strides, sf_objects, sf_obj, dest_files>>
    /\ UNCHANGED notStride

\* the next run, into a new destination
StrideAgain ==
    /\ sf_pc \in {"done", "raised"}
    /\ sf_pc' = "load_hashes"
    /\ sf_len' = 0
    /\ sf_num' = 0
    /\ game' = "GenshinImpact"
    /\ blend_vb' = FALSE
    /\ fmt_layout' = <<>>
    /\ fmt_stride' = 0
    /\ strides' = <<>>
    /\ sf_objects' = 0
    /\ sf_obj' = 0
    /\ dest_files' = {}
    /\ UNCHANGED notStride

StrideNext ==
    \/ StrideLoadHashes
    \/ StrideTextureOnly
    \/ ReadFmtStride
    \/ ParseFmtLayout
    \/ WriteObjectIb
    \/ WriteComponentBuffers
    \/ StrideDone
    \/ StrideAgain

SpecStride == Init /\ [][StrideNext]_vars

\* C16: when the stride check of any component fails, no .ib or .buf file of
\* any component has been written to the destination by that run.
C16_StrideFailureBeforeAnyFile ==
    sf_pc = "raised" => dest_files = {}

\* the sizes of the non-aliased elements of a layout, summed
RECURSIVE NonAliasedSize(_, _)
NonAliasedSize(layout, k) ==
    IF k > Len(layout) THEN 0
    ELSE (IF layout[k].reused_offset THEN 0 ELSE layout[k].size)
         + NonAliasedSize(layout, k + 1)

\* C17: the stride check of a blend component accepts the layout exactly when
\* the declared stride equals the sum of the sizes of its non-aliased
\* elements, whatever their semantic names.
C17_AcceptsIffNonAliasedSum ==
    (blend_vb /\ sf_pc \in {"objects", "raised"}) =>
        ((sf_pc = "objects") <=> (fmt_stride = NonAliasedSize(fmt_layout, 1)))

----------------------------------------------------------------------------
(* recursive_connections *)

\* number of points the connection dicts range over
MaxPoints == 3

Points == 1 .. MaxPoints

\* the dicts of at most MaxPoints entries: distinct keys in any insertion
\* order, each with a set of connected points
ConnectionDicts ==
    UNION {{d \in [1 .. n -> Points \X SUBSET Points] :
                \A a \in 1 .. n : \A b \in 1 .. n : a # b => d[a][1] # d[b][1]} :
           n \in 0 .. MaxPoints}

\* Over2_connected_points.keys()
KeySet(d) == {d[i][1] : i \in DOMAIN d}

\* position of the first entry with fewer than 2 connections among the keys,
\* 0 when the loop ends without one
RECURSIVE FirstWeakEntry(_, _)
FirstWeakEntry(d, i) ==
    IF i > Len(d) THEN 0
    ELSE IF Cardinality(d[i][2] \cap KeySet(d)) < 2 THEN i
    ELSE FirstWeakEntry(d, i + 1)

\* Over2_connected_points.pop(entry)
Pop(d, i) == SubSeq(d, 1, i - 1) \o SubSeq(d, i + 1, Len(d))

\* the dicts of MaxPoints + 1 entries tried: keys by increasing or decreasing
\* point, no point connected to itself
LargerDicts ==
    LET n == MaxPoints + 1
    IN  {d \in [1 .. n -> (1 .. n) \X SUBSET (1 .. n)] :
            /\ \/ \A a \in 1 .. n : d[a][1] = a
               \/ \A a \in 1 .. n : d[a][1] = n + 1 - a
            /\ \A a \in 1 .. n : d[a][1] \notin d[a][2]}

\* variant: the number of entries left is not tested
RECURSIVE RecursiveConnectionsNoSizeTest(_)
RecursiveConnectionsNoSizeTest(d) ==
    LET i == FirstWeakEntry(d, 1)
    IN  IF i = 0 THEN TRUE
        ELSE RecursiveConnectionsNoSizeTest(Pop(d, i))

\* the number of nested calls recursive_connections makes below the first
RECURSIVE RecursionDepth(_)
RecursionDepth(d) ==
    LET i == FirstWeakEntry(d, 1)
    IN  IF i = 0 THEN 0
        ELSE IF Len(Pop(d, i)) < 3 THEN 0
        ELSE 1 + RecursionDepth(Pop(d, i))

RECURSIVE RecursiveConnections(_)
RecursiveConnections(d) ==
    LET i == FirstWeakEntry(d, 1)
    IN  IF i = 0 THEN TRUE
        ELSE IF Len(Pop(d, i)) < 3 THEN FALSE
        ELSE RecursiveConnections(Pop(d, i))

\* a call of recursive_connections, as checkEnclosedFacesVertex makes it
CallRecursiveConnections ==
    /\ rc_pc = "idle"
    /\ \E d \in ConnectionDicts \cup LargerDicts :
        /\ Over2_connected_points' = d
        /\ rc_result' = RecursiveConnections(d)
    /\ rc_pc' = "returned"
    /\ UNCHANGED notConn

\* the result is used; the next vertex is examined
NextConnections ==
    /\ rc_pc = "returned"
    /\ rc_pc' = "idle"
    /\ Over2_connected_points' = <<>>
    /\ rc_result' = FALSE
    /\ UNCHANGED notConn

ConnNext == CallRecursiveConnections \/ NextConnections

SpecConnections == Init /\ [][ConnNext]_vars

\* the connections of key k in the dict d
ConnectionsOf(d, k) == UNION {d[i][2] : i \in {i \in DOMAIN d : d[i][1] = k}}

\* what is left after repeatedly removing the entries with fewer than 2
\* connections to entries still present: the largest set of keys each of
\* which has at least 2 connections inside the set
Residual(d) ==
    UNION {S \in SUBSET KeySet(d) :
                \A k \in S : Cardinality(ConnectionsOf(d, k) \cap S) >= 2}

\* C20: recursive_connections returns True only if the residual set has at
\* least 3 entries; for every input whose residual set has fewer than 3
\* entries, the empty input included, it returns False.
C20_TrueOnlyWithResidualOfThree ==
    (rc_pc = "returned" /\ rc_result) =>
        Cardinality(Residual(Over2_connected_points)) >= 3

----------------------------------------------------------------------------
(* optimized_outline_generation, the TANGENT element and the index building *)

\* largest number of polygons of a mesh
MaxPolys == 2

\* poly.vertices of the triangles tried
PolyVertices == {<<0, 1, 2>>, <<1, 2, 3>>}

\* poly.normal of the triangles tried: unit vectors of a plane
PolyNormals == {<<1, 0>>, <<-1, 0>>, <<0, 1>>}

\* undeformed_co of the vertices tried, in tenths of
\* 10 ** -decimal_rounding_outline, on the one axis the vertices differ on:
\* 0 and 4 round to one position; 14 lies within nearest_edge_distance of 4
\* and of 24, not of 0; 200 lies far from the others
Coordinates == {0, 4, 14, 24, 200}

PolygonLists ==
    UNION {[1 .. n -> [vertices : PolyVertices, normal : PolyNormals]] :
                n \in 1 .. MaxPolys}

\* set(vlist)
FaceVertSet(poly) == {poly.vertices[c] : c \in 1 .. 3}

\* searched_vertex_pos at the end of the loop over mesh.polygons
SeenVertices(polys) == UNION {FaceVertSet(polys[f]) : f \in DOMAIN polys}

\* the elements of S by increasing rank
RECURSIVE OrderedBy(_, _)
OrderedBy(S, rank) ==
    IF S = {} THEN <<>>
    ELSE LET first == CHOOSE x \in S : \A y \in S : rank[x] <= rank[y]
         IN  <<first>> \o OrderedBy(S \ {first}, rank)

\* iteration over a set of ints: the language fixes no order; the builds
\* modelled yield the elements by increasing or by decreasing value
SetIter(S, order) ==
    OrderedBy(S, [x \in S |-> IF order = "ascending" THEN x ELSE -x])

\* the traversal step at which the loop over mesh.polygons first meets v
FirstSeen(polys, v) ==
    LET steps == {3 * (f - 1) + c : f \in DOMAIN polys, c \in 1 .. 3}
        hits == {t \in steps :
                    polys[((t - 1) \div 3) + 1].vertices[((t - 1) % 3) + 1] = v}
    IN  CHOOSE t \in hits : \A u \in hits : t <= u

\* Pos_Same_Vertices[key of v]
PosGroup(m, v) ==
    {u \in SeenVertices(m.polygons) : m.position_key[u] = m.position_key[v]}

\* the keys of Precalculated_Outline_data["Same_Vertex"] in insertion order:
\* the groups as first met, the members of a group as the set yields them
SameVertexKeys(m) ==
    LET seen == SeenVertices(m.polygons)
        met(v) == CHOOSE t \in {FirstSeen(m.polygons, u) : u \in PosGroup(m, v)} :
                    \A t2 \in {FirstSeen(m.polygons, u) : u \in PosGroup(m, v)} :
                        t <= t2
        within(v) == IF m.set_order = "ascending"
                     THEN v ELSE Cardinality(Vertices) - v
    IN  OrderedBy(seen,
                  [v \in seen |-> met(v) * (Cardinality(Vertices) + 1) + within(v)])

\* round(coord, digits) for a cell of w units; no coordinate tried lies
\* half-way between two cells
Round(x, w) == (2 * x + w) \div (2 * w)

\* Pos_Same_Vertices.values(): the groups in the order they are first met
PosSameVertices(m) ==
    LET seen == SeenVertices(m.polygons)
        gs == {PosGroup(m, v) : v \in seen}
        met(g) == CHOOSE t \in {FirstSeen(m.polygons, u) : u \in g} :
                    \A t2 \in {FirstSeen(m.polygons, u) : u \in g} : t <= t2
    IN  OrderedBy(gs, [g \in gs |-> met(g)])

\* the sequences of ss one after the other
RECURSIVE Concat(_)
Concat(ss) ==
    IF Len(ss) = 0 THEN <<>> ELSE Head(ss) \o Concat(Tail(ss))

\* Precalculated_Outline_data["Connected_Faces"][v]: the polygons of v in
\* the order of the mesh
ConnectedFacesOf(polys, v) ==
    LET fs == {f \in DOMAIN polys : v \in FaceVertSet(polys[f])}
    IN  OrderedBy(fs, [f \in fs |-> f])

\* ConnectedFaces of a group: the vertex lists of the faces of its members
ConnectedFaces(m, vertex_group) ==
    LET it == SetIter(vertex_group, m.set_order)
        fc == Concat([k \in DOMAIN it |-> ConnectedFacesOf(m.polygons, it[k])])
    IN  [k \in DOMAIN fc |-> m.polygons[fc[k]].vertices]

\* [x for x in seq if x not in S]
RECURSIVE SeqWithout(_, _)
SeqWithout(seq, S) ==
    IF Len(seq) = 0 THEN <<>>
    ELSE IF Head(seq) \in S THEN SeqWithout(Tail(seq), S)
    ELSE <<Head(seq)>> \o SeqWithout(Tail(seq), S)

\* the pairs <<point, x>> a face adds to Main_connected_points: x is appended
\* to the list of point
FacePairs(face, vg_set) ==
    LET non_vg_points == SeqWithout(face, vg_set)
    IN  IF Len(non_vg_points) > 1
        THEN Concat([a \in DOMAIN non_vg_points |->
                LET others == SeqWithout(non_vg_points, {non_vg_points[a]})
                IN  [k \in DOMAIN others |-> <<non_vg_points[a], others[k]>>]])
        ELSE <<>>

\* the keys of a dict of lists given by its pairs, in insertion order
RECURSIVE PairKeys(_, _)
PairKeys(pairs, seen) ==
    IF Len(pairs) = 0 THEN <<>>
    ELSE IF Head(pairs)[1] \in seen THEN PairKeys(Tail(pairs), seen)
    ELSE <<Head(pairs)[1]>> \o PairKeys(Tail(pairs), seen \cup {Head(pairs)[1]})

\* the list a dict of lists holds for key
RECURSIVE ListOf(_, _)
ListOf(pairs, key) ==
    IF Len(pairs) = 0 THEN <<>>
    ELSE IF Head(pairs)[1] = key
    THEN <<Head(pairs)[2]>> \o ListOf(Tail(pairs), key)
    ELSE ListOf(Tail(pairs), key)

\* New_Main_connect: for every entry and every val of its list, the vertices
\* at the position of val that are keys of Main_connected_points
NewMainConnect(pairs, Same_Vertex, order) ==
    LET keys == PairKeys(pairs, {})
        keyset == {keys[k] : k \in DOMAIN keys}
    IN  Concat([e \in DOMAIN keys |->
            LET value == ListOf(pairs, keys[e])
            IN  Concat([j \in DOMAIN value |->
                    LET side == SetIter((Same_Vertex[value[j]] \ {value[j]})
                                            \cap keyset, order)
                    IN  [k \in DOMAIN side |-> <<keys[e], side[k]>>]])])

\* Over2_connected_points: the entries of Main_connected_points whose list
\* holds more than one point, each with the set of its list
RECURSIVE Over2(_, _)
Over2(main, keys) ==
    IF Len(keys) = 0 THEN <<>>
    ELSE LET v == ListOf(main, Head(keys))
         IN  (IF Len(v) > 1
              THEN <<<<Head(keys), {v[j] : j \in DOMAIN v}>>>> ELSE <<>>)
             \o Over2(main, Tail(keys))

\* checkEnclosedFacesVertex
CheckEnclosedFacesVertex(faces, vg_set, Same_Vertex, order) ==
    LET first == Concat([k \in DOMAIN faces |-> FacePairs(faces[k], vg_set)])
        new == NewMainConnect(first, Same_Vertex, order)
        main == first \o new \o [k \in DOMAIN new |-> <<new[k][2], new[k][1]>>]
    IN  RecursiveConnections(Over2(main, PairKeys(first, {})))

\* nearest_edge_distance, in tenths of 10 ** -decimal_rounding_outline
NearestEdgeDistance == 10

\* 10 ** -decimal_rounding_outline in the same units
RoundingIncrement == 10

\* i_nedd_increment: i_nedd is one digit less than decimal_rounding_outline
\* for a nearest_edge_distance of 1 to 9 times 10 ** -decimal_rounding_outline
INeddIncrement == 10 * RoundingIncrement

\* coord[i]: the rounded ends of the box and the cells between them
CoordCells(pn, pnn) ==
    LET z == Round(pn, INeddIncrement)
        n == Round(pnn, INeddIncrement)
        zndifference == z - n
    IN  {z, n} \cup (IF zndifference > 1
                     THEN {z - r : r \in 0 .. zndifference - 2} ELSE {})

\* Same_Vertex and RepositionLocal before edge detection
GroupsOnly(m) ==
    [Same_Vertex |-> [v \in SeenVertices(m.polygons) |-> PosGroup(m, v)],
     RepositionLocal |-> {}]

\* one pass of the loop of edge detection over Pos_Same_Vertices.values()
EdgeStep(m, vertex_group, data) ==
    LET seen == SeenVertices(m.polygons)
        enclosed == CheckEnclosedFacesVertex(ConnectedFaces(m, vertex_group),
                        vertex_group, data.Same_Vertex, m.set_order)
        vertex == SetIter(vertex_group, m.set_order)[1]
        p1 == m.undeformed_co[vertex]
        p1n == p1 + NearestEdgeDistance
        p1nn == p1 - NearestEdgeDistance
        closest_group ==
            {v \in seen : Round(m.undeformed_co[v], INeddIncrement)
                                \in CoordCells(p1n, p1nn)}
        inside == {v \in closest_group \ vertex_group :
                        /\ p1n >= m.undeformed_co[v]
                        /\ m.undeformed_co[v] >= p1nn}
        after ==
            IF ~enclosed /\ Cardinality(closest_group) # 1
            THEN [Same_Vertex |->
                    [x \in seen |-> IF x \in vertex_group
                                    THEN data.Same_Vertex[x] \cup inside
                                    ELSE data.Same_Vertex[x]],
                  RepositionLocal |-> data.RepositionLocal \cup vertex_group]
            ELSE data
    IN  [vertex_group |-> vertex_group, enclosed |-> enclosed,
         vertex |-> vertex, closest_group |-> closest_group,
         before |-> data, after |-> after]

\* the passes of edge detection from group i on, each pass on the data the
\* pass before it left
RECURSIVE EdgeLoop(_, _, _, _)
EdgeLoop(m, groups, i, data) ==
    IF i > Len(groups) THEN <<>>
    ELSE LET step == EdgeStep(m, groups[i], data)
         IN  <<step>> \o EdgeLoop(m, groups, i + 1, step.after)

\* the passes of edge detection of a run
EdgeDetection(m) ==
    IF m.detect_edges THEN EdgeLoop(m, PosSameVertices(m), 1, GroupsOnly(m))
    ELSE <<>>

\* Precalculated_Outline_data at the end of the pre-computation
PreDictionary(m) ==
    LET passes == EdgeDetection(m)
    IN  IF Len(passes) = 0 THEN GroupsOnly(m) ELSE passes[Len(passes)].after

\* Same_Vertex[v]: a copy of the group of v, to which edge detection has added
\* the close vertices it merged into that group
SameVertex(m, v) == m.Precalculated_Outline_data.Same_Vertex[v]

\* variant: no vertex is local-only
RepositionLocalNone(m) == {}

\* Precalculated_Outline_data.get("RepositionLocal"), {} standing for None too
RepositionLocal(m) == m.Precalculated_Outline_data.RepositionLocal

\* Connected_Faces_bySameVertex[key]
ConnectedFacesBySameVertex(m, key) ==
    {f \in DOMAIN m.polygons :
        FaceVertSet(m.polygons[f]) \cap SameVertex(m, key) # {}}

Dot(a, b) == a[1] * b[1] + a[2] * b[2]

\* antiparallel_search: two of the normals have a dot product of -1
AntiparallelSearch(m, faces) ==
    \E f \in faces : \E g \in faces :
        Dot(m.polygons[f].normal, m.polygons[g].normal) = -1

\* the angle of the face at vert0, in units of 30 degrees: the triangles tried
\* have angles of 30, 60 and 90 degrees at their first, second and third vertex
Angle(poly, vert0) == CHOOSE c \in 1 .. 3 : poly.vertices[c] = vert0

\* the factor of a face's normal: the angle left in VectorMatrix0/1 by the
\* last vert0 the loop over vert0p yields, or 1 without angle weighting;
\* numpy.multiply(...) for influence_restriction > 1 discards its result
FaceWeight(m, f, vertex_group) ==
    LET vert0p == FaceVertSet(m.polygons[f]) \cap vertex_group
        iter == SetIter(vert0p, m.set_order)
    IN  IF m.angle_weighted
        THEN Angle(m.polygons[f], iter[Len(iter)])
        ELSE 1

\* numpy.sum(ConnectedWeightedNormal, axis=0) over the faces from k on
RECURSIVE SumNormals(_, _, _, _)
SumNormals(m, faces, vertex_group, k) ==
    IF k > Len(faces) THEN <<0, 0>>
    ELSE LET w == FaceWeight(m, faces[k], vertex_group)
             n == m.polygons[faces[k]].normal
             rest == SumNormals(m, faces, vertex_group, k + 1)
         IN  <<w * n[1] + rest[1], w * n[2] + rest[2]>>

WeightedSum(m, key) ==
    SumNormals(m, SetIter(ConnectedFacesBySameVertex(m, key), m.set_order),
               SameVertex(m, key), 1)

Abs(x) == IF x < 0 THEN -x ELSE x

RECURSIVE Gcd(_, _)
Gcd(a, b) == IF b = 0 THEN a ELSE Gcd(b, a % b)

\* unit_vector: vector / norm where the norm is not 0, zeros elsewhere. The
\* direction num / sqrt(den2) is kept in lowest terms
UnitVector(v) ==
    IF v = <<0, 0>> THEN [num |-> <<0, 0>>, den2 |-> 1]
    ELSE LET g == Gcd(Abs(v[1]), Abs(v[2]))
             p == <<v[1] \div g, v[2] \div g>>
         IN  [num |-> p, den2 |-> Dot(p, p)]

\* variant: the sum is stored whatever it is
IsNonZeroAlways(wSum) == TRUE

\* wSum != [0, 0, 0]
IsNonZero(wSum) == wSum.num # <<0, 0>>

\* export_outline.setdefault(k, wSum) for every k of ks
SetDefaultAll(eo, ks, wSum) ==
    [k \in DOMAIN eo \cup ks |-> IF k \in DOMAIN eo THEN eo[k] ELSE wSum]

\* the CALCULATIONS loop over the items of Same_Vertex from item i on: the
\* map it returns and, for every key it did not skip at the top of the loop,
\* what became of the key and the wSum computed for it (none where the
\* normals are antiparallel: the zero vector stands for it)
RECURSIVE CalcLoop(_, _, _, _, _, _)
CalcLoop(m, keys, i, eo, IteratedValues, done) ==
    IF i > Len(keys) THEN [export_outline |-> eo, processed |-> done]
    ELSE
      LET key == keys[i]
          vertex_group == SameVertex(m, key)
          faces == ConnectedFacesBySameVertex(m, key)
          wSum == UnitVector(WeightedSum(m, key))
          as(what) == Append(done, [key |-> key, what |-> what,
                                    wSum |-> IF what = "antiparallel"
                                             THEN UnitVector(<<0, 0>>)
                                             ELSE wSum])
      IN  IF key \in IteratedValues
          THEN CalcLoop(m, keys, i + 1, eo, IteratedValues, done)
          ELSE IF ~m.calculate_all_faces /\ Cardinality(vertex_group) = 1
          THEN CalcLoop(m, keys, i + 1, eo, IteratedValues, done)
          ELSE IF m.overlapping_faces /\ AntiparallelSearch(m, faces)
          THEN CalcLoop(m, keys, i + 1, eo, IteratedValues, as("antiparallel"))
          ELSE IF ~IsNonZero(wSum)
          THEN CalcLoop(m, keys, i + 1, eo, IteratedValues, as("zero"))
          ELSE IF key \in RepositionLocal(m)
          THEN CalcLoop(m, keys, i + 1, SetDefaultAll(eo, {key}, wSum),
                        IteratedValues, as("local"))
          ELSE CalcLoop(m, keys, i + 1, SetDefaultAll(eo, vertex_group, wSum),
                        IteratedValues \cup vertex_group, as("override"))

OptimizedOutlineGeneration(m) == CalcLoop(m, SameVertexKeys(m), 1, <<>>, {}, <<>>)

\* mesh.loops of the triangles
PolygonLoops(polys) ==
    [l \in 0 .. 3 * Len(polys) - 1 |->
        [vertex_index |-> polys[(l \div 3) + 1].vertices[(l % 3) + 1],
         normal |-> polys[(l \div 3) + 1].normal]]

\* the tangent read from the mesh for a loop without an outline direction
MeshTangent == [num |-> <<0, -1>>, den2 |-> 1]

\* one record <<POSITION.x, TANGENT>> per loop:
\* temp_tangent[loop.index] = export_outline.get(loop.vertex_index, ...)
OutlineMigotoVerts(lp, eo) ==
    [l \in DOMAIN lp |->
        <<PositionCo(lp[l].vertex_index),
          IF lp[l].vertex_index \in DOMAIN eo
          THEN eo[lp[l].vertex_index] ELSE MeshTangent>>]

\* blender_to_migoto_vertices with outline optimization, then the index
\* building of mesh_to_bin (no flip flag set)
OutlineRun(m) ==
    LET calc == OptimizedOutlineGeneration(m)
        eo == calc.export_outline
        lp == PolygonLoops(m.polygons)
        mv == OutlineMigotoVerts(lp, eo)
    IN  IF \E l \in DOMAIN lp : LoopRow(lp, l) \notin DOMAIN mv
        THEN [export_outline |-> eo, processed |-> calc.processed,
              vb |-> <<>>, ib |-> <<>>, err |-> "IndexError"]
        ELSE LET r == IndexLoops(mv, lp, 0, <<>>, <<>>)
             IN  [export_outline |-> eo, processed |-> calc.processed,
                  vb |-> Keys(r.dict), ib |-> FromList(r.ib_list),
                  err |-> "none"]

\* the mesh and the options of the pre-computation
OutlineMesh ==
    [polygons |-> polygons, position_key |-> position_key,
     undeformed_co |-> undeformed_co, detect_edges |-> detect_edges,
     set_order |-> set_order]

\* the mesh and the options of the run, as the operators above take them
OutlineInput ==
    [polygons |-> polygons, position_key |-> position_key,
     undeformed_co |-> undeformed_co, detect_edges |-> detect_edges,
     set_order |-> set_order,
     Precalculated_Outline_data |-> Precalculated_Outline_data,
     angle_weighted |-> angle_weighted, overlapping_faces |-> overlapping_faces,
     calculate_all_faces |-> calculate_all_faces]

\* the positions tried: vertex 0 lies at the origin or far away, the other
\* vertices close to each other
PositionMaps ==
    {co \in [Vertices -> Coordinates] :
        /\ co[0] \in {0, 200}
        /\ \A v \in Vertices \ {0} : co[v] \in {4, 14, 24}}

\* the meshes tried: their first polygon is the triangle 0, 1, 2
OutlineMeshes == {polys \in PolygonLists : polys[1].vertices = <<0, 1, 2>>}

\* the evaluated mesh of the object to export; the vertices are grouped by
\* round(coord, decimal_rounding_outline)
LoadOutlineMesh ==
    /\ ol_pc = "idle"
    /\ \E polys \in OutlineMeshes, co \in PositionMaps :
        /\ polygons' = polys
        /\ undeformed_co' = co
        /\ position_key' = [v \in Vertices |-> Round(co[v], RoundingIncrement)]
    /\ ol_pc' = "mesh"
    /\ UNCHANGED <<angle_weighted, overlapping_faces, calculate_all_faces,
                   detect_edges, Precalculated_Outline_data, edge_passes,
                   processed, set_order, export_outline, outline_vb,
                   outline_ib, outline_err>>
    /\ UNCHANGED notOutline

\* the PRE-DICTIONARY part of optimized_outline_generation
PrecomputeOutline ==
    /\ ol_pc = "mesh"
    /\ \E de \in BOOLEAN, order \in {"ascending", "descending"} :
            LET m == [polygons |-> polygons, position_key |-> position_key,
                      undeformed_co |-> undeformed_co, detect_edges |-> de,
                      set_order |-> order]
            IN  /\ detect_edges' = de
                /\ set_order' = order
                /\ edge_passes' = EdgeDetection(m)
                /\ Precalculated_Outline_data' = PreDictionary(m)
    /\ ol_pc' = "precomputed"
    /\ UNCHANGED <<polygons, position_key, undeformed_co, angle_weighted,
                   overlapping_faces, calculate_all_faces, processed,
                   export_outline, outline_vb, outline_ib, outline_err>>
    /\ UNCHANGED notOutline

\* the CALCULATIONS part, and the buffers built from the map it returns
BuildOutline ==
    /\ ol_pc = "precomputed"
    /\ \E aw \in BOOLEAN, of \in BOOLEAN, caf \in BOOLEAN :
            LET m == [OutlineInput EXCEPT !.angle_weighted = aw,
                                          !.overlapping_faces = of,
                                          !.calculate_all_faces = caf]
                run == OutlineRun(m)
            IN  /\ angle_weighted' = aw
                /\ overlapping_faces' = of
                /\ calculate_all_faces' = caf
                /\ export_outline' = run.export_outline
                /\ processed' = run.processed
                /\ outline_vb' = run.vb
                /\ outline_ib' = run.ib
                /\ outline_err' = run.err
    /\ ol_pc' = "built"
    /\ UNCHANGED <<polygons, position_key, undeformed_co, detect_edges,
                   Precalculated_Outline_data, edge_passes, set_order>>
    /\ UNCHANGED notOutline

\* the next export starts from empty dictionaries
OutlineAgain ==
    /\ ol_pc = "built"
    /\ ol_pc' = "idle"
    /\ polygons' = <<>>
    /\ position_key' = <<>>
    /\ undeformed_co' = <<>>
    /\ angle_weighted' = FALSE
    /\ overlapping_faces' = FALSE
    /\ calculate_all_faces' = FALSE
    /\ detect_edges' = FALSE
    /\ Precalculated_Outline_data' = [Same_Vertex |-> <<>>, RepositionLocal |-> {}]
    /\ edge_passes' = <<>>
    /\ processed' = <<>>
    /\ set_order' = "ascending"
    /\ export_outline' = <<>>
    /\ outline_vb' = <<>>
    /\ outline_ib' = <<>>
    /\ outline_err' = "none"
    /\ UNCHANGED notOutline

OutlineNext ==
    LoadOutlineMesh \/ PrecomputeOutline \/ BuildOutline \/ OutlineAgain

SpecOutline == Init /\ [][OutlineNext]_vars

\* the normals of the faces connected to the group of key, each with a
\* positive weight of wt, summed
SumWith(m, faces, wt) ==
    LET RECURSIVE Go(_)
        Go(k) == IF k > Len(faces) THEN <<0, 0>>
                 ELSE LET n == m.polygons[faces[k]].normal
                          rest == Go(k + 1)
                      IN  <<wt[faces[k]] * n[1] + rest[1],
                            wt[faces[k]] * n[2] + rest[2]>>
    IN  Go(1)

\* w is the unit vector of a non-zero weighted sum of the normals of the
\* faces connected to the group of key
IsGroupDirection(m, key, w) ==
    LET fs == ConnectedFacesBySameVertex(m, key)
        faces == SetIter(fs, "ascending")
    IN  \E wt \in [fs -> 1 .. 3] :
            /\ SumWith(m, faces, wt) # <<0, 0>>
            /\ w = UnitVector(SumWith(m, faces, wt))

WeakEntries(d) ==
    {i \in DOMAIN d : Cardinality(d[i][2] \cap KeySet(d)) < 2}

\* the results of the iterative worklist procedure, over every order of
\* removal: a removable entry is removed; False when fewer than 3 entries are
\* left after a removal, True when no entry is removable
RECURSIVE WorklistResults(_)
WorklistResults(d) ==
    IF WeakEntries(d) = {} THEN {TRUE}
    ELSE UNION {IF Len(Pop(d, i)) < 3 THEN {FALSE}
                ELSE WorklistResults(Pop(d, i)) : i \in WeakEntries(d)}

\* C21: recursive_connections ends within a recursion depth of at most the
\* initial number of entries, and its result is the result of the iterative
\* worklist procedure whichever removable entry that procedure removes first.
C21_SameAsWorklistInAnyOrder ==
    rc_pc = "returned" =>
        /\ RecursionDepth(Over2_connected_points) <= Len(Over2_connected_points)
        /\ WorklistResults(Over2_connected_points) = {rc_result}

\* a call that recursed, on a dict with a choice of entries to remove first
C21_Witness ==
    /\ rc_pc = "returned"
    /\ RecursionDepth(Over2_connected_points) > 0
    /\ Cardinality(WeakEntries(Over2_connected_points)) > 1
    /\ ~rc_result

\* the vertices outside the group of a pass of edge detection that lie within
\* nearest_edge_distance of the vertex the pass measures from
BoxCandidates(pass) ==
    {v \in SeenVertices(polygons) \ pass.vertex_group :
        /\ undeformed_co[v] <= undeformed_co[pass.vertex] + NearestEdgeDistance
        /\ undeformed_co[v] >= undeformed_co[pass.vertex] - NearestEdgeDistance}

\* the pass added its group to RepositionLocal
MarkedLocal(pass) ==
    /\ pass.vertex_group \subseteq pass.after.RepositionLocal
    /\ ~(pass.vertex_group \subseteq pass.before.RepositionLocal)

\* the vertices the pass added to the Same_Vertex sets of its group
MergedBy(pass) ==
    UNION {pass.after.Same_Vertex[x] \ pass.before.Same_Vertex[x] :
                x \in pass.vertex_group}

\* C22: edge detection marks a position group local-only only when the group
\* is not enclosed and more than one candidate outside the group lies within
\* the tolerance box; a group that is not enclosed and has no or exactly one
\* such candidate is not marked.
C22_MarkedOnlyWithSeveralCandidates ==
    \A k \in DOMAIN edge_passes :
        LET pass == edge_passes[k]
        IN  /\ MarkedLocal(pass) =>
                /\ ~pass.enclosed
                /\ Cardinality(BoxCandidates(pass)) > 1
            /\ (~pass.enclosed /\ Cardinality(BoxCandidates(pass)) <= 1) =>
                    ~MarkedLocal(pass)

\* C23: the Same_Vertex sets of a group that is not enclosed are extended with
\* a neighbour only when exactly one candidate outside the group lies within
\* the box; when two or more lie within it, none is merged.
C23_MergedOnlyWhenExactlyOneCandidate ==
    \A k \in DOMAIN edge_passes :
        LET pass == edge_passes[k]
        IN  /\ MergedBy(pass) # {} =>
                /\ ~pass.enclosed
                /\ Cardinality(BoxCandidates(pass)) = 1
            /\ Cardinality(BoxCandidates(pass)) >= 2 => MergedBy(pass) = {}

\* C24: at the end of the pre-computation, whatever the options, Same_Vertex
\* is an equivalence: v in Same_Vertex[u] implies u in Same_Vertex[v] and the
\* two sets are equal.
C24_SameVertexIsAnEquivalence ==
    ol_pc \in {"precomputed", "built"} =>
        \A u \in SeenVertices(polygons) :
            \A v \in Precalculated_Outline_data.Same_Vertex[u] :
                /\ u \in Precalculated_Outline_data.Same_Vertex[v]
                /\ Precalculated_Outline_data.Same_Vertex[u]
                        = Precalculated_Outline_data.Same_Vertex[v]

\* 0.5 ** (1 - n) for n >= 1
Discount(n) == Pow2(n - 1)

\* the sum of the normals of the faces connected to the group of key, each
\* scaled by 1 where the face touches one member of the group and by
\* 0.5 ** (1 - n) where it touches n > 1 members
DiscountedSum(m, key) ==
    LET fs == ConnectedFacesBySameVertex(m, key)
        wt == [f \in fs |->
                Discount(Cardinality(FaceVertSet(m.polygons[f])
                                        \cap SameVertex(m, key)))]
    IN  SumWith(m, SetIter(fs, "ascending"), wt)

\* C25: without angle weighting, the direction computed for a group is the
\* normalization of the sum of the normals of its connected faces, a face
\* touching one member of the group counted with weight 1 and a face touching
\* n > 1 members scaled by 0.5 ** (1 - n).
C25_FacesScaledByMembersTouched ==
    (ol_pc = "built" /\ ~angle_weighted) =>
        \A k \in DOMAIN processed :
            processed[k].what # "antiparallel" =>
                processed[k].wSum
                    = UnitVector(DiscountedSum(OutlineInput, processed[k].key))

\* C26: with overlapping_faces set, when the faces connected to the group of
\* a key hold two antiparallel normals, no vertex of that group has an entry
\* in the returned map.
C26_AntiparallelGroupHasNoEntry ==
    (ol_pc = "built" /\ overlapping_faces) =>
        \A key \in SeenVertices(polygons) :
            AntiparallelSearch(OutlineInput,
                    ConnectedFacesBySameVertex(OutlineInput, key)) =>
                \A v \in SameVertex(OutlineInput, key) :
                    v \notin DOMAIN export_outline

\* C27: in the returned map every vertex of a group that is not local-only
\* and received an override holds the direction of that group, and a
\* local-only key wrote an entry for itself only: every entry is the wSum of
\* its own local-only key or of a propagated group the vertex belongs to.
C27_PropagatedGroupsShareLocalKeysAlone ==
    ol_pc = "built" =>
        LET local == Precalculated_Outline_data.RepositionLocal
        IN  /\ \A k \in DOMAIN processed :
                (processed[k].what = "override" /\ processed[k].key \notin local)
                    => \A v \in SameVertex(OutlineInput, processed[k].key) :
                        /\ v \in DOMAIN export_outline
                        /\ export_outline[v] = processed[k].wSum
            /\ \A v \in DOMAIN export_outline :
                \E k \in DOMAIN processed :
                    /\ processed[k].what \in {"override", "local"}
                    /\ export_outline[v] = processed[k].wSum
                    /\ IF processed[k].key \in local
                       THEN v = processed[k].key
                       ELSE v \in SameVertex(OutlineInput, processed[k].key)

\* a run that wrote the entry of a local-only key whose group has another
\* member or a merged neighbour, and the entry of a propagated group
C27_Witness ==
    /\ ol_pc = "built"
    /\ \E k \in DOMAIN processed :
        /\ processed[k].what = "local"
        /\ SameVertex(OutlineInput, processed[k].key) # {processed[k].key}
    /\ \E k \in DOMAIN processed : processed[k].what = "override"

\* C28: within one run the normals of a position group are accumulated at
\* most once: after a member of the group was processed as key, whatever
\* became of it, no other member of the group leads to an accumulation.
C28_GroupAccumulatedOnce ==
    ol_pc = "built" =>
        \A i \in DOMAIN processed : \A j \in DOMAIN processed :
            (i < j /\ processed[j].key
                        \in PosGroup(OutlineInput, processed[i].key))
                => processed[j].what = "antiparallel"

----------------------------------------------------------------------------
(* The vertex counts of a ModExporter over several calls of generate_buffers *)

\* most calls of generate_buffers made on one instance
MaxCalls == 2

\* the sub-objects tried: without polygons, or with polygons and the v_count
\* get_data returns for them; vertex_count is 0 at construction
SubObjs ==
    {[has_polygons |-> FALSE, v_count |-> 0, vertex_count |-> 0]} \cup
    {[has_polygons |-> TRUE, v_count |-> n, vertex_count |-> 0] :
            n \in 1 .. MaxRecs}

\* the parts tried, vertex_count 0 at construction
Parts ==
    UNION {[objects : [1 .. n -> SubObjs], vertex_count : {0}] :
                n \in 1 .. MaxEntries}

\* the components tried, vertex_count 0 at construction
Components ==
    UNION {[parts : [1 .. n -> Parts], vertex_count : {0}] :
                n \in 1 .. MaxParts}

\* the ModExporter is built for a mod file
NewModExporter ==
    /\ vc_pc = "new"
    /\ \E c \in Components : mod_component' = c
    /\ vc_pc' = "ready"
    /\ UNCHANGED <<output_position, vc_part, vc_entry, gb_calls>>
    /\ UNCHANGED notCount

\* generate_buffers is called: the output buffers of the component are empty
CountGenerateBuffers ==
    /\ vc_pc = "ready"
    /\ gb_calls < MaxCalls
    /\ gb_calls' = gb_calls + 1
    /\ output_position' = 0
    /\ vc_part' = 1
    /\ vc_entry' = 1
    /\ vc_pc' = "entry"
    /\ UNCHANGED mod_component
    /\ UNCHANGED notCount

\* len(entry.obj.data.polygons) == 0: continue
CountSkipEntry ==
    /\ vc_pc = "entry"
    /\ vc_part <= Len(mod_component.parts)
    /\ vc_entry <= Len(mod_component.parts[vc_part].objects)
    /\ ~mod_component.parts[vc_part].objects[vc_entry].has_polygons
    /\ vc_entry' = vc_entry + 1
    /\ UNCHANGED <<vc_pc, mod_component, output_position, vc_part, gb_calls>>
    /\ UNCHANGED notCount

\* the records of the entry are appended to the output buffers;
\* entry.vertex_count = v_count, part.vertex_count += v_count,
\* component.vertex_count += v_count
CountEntry ==
    /\ vc_pc = "entry"
    /\ vc_part <= Len(mod_component.parts)
    /\ vc_entry <= Len(mod_component.parts[vc_part].objects)
    /\ mod_component.parts[vc_part].objects[vc_entry].has_polygons
    /\ LET v_count == mod_component.parts[vc_part].objects[vc_entry].v_count
       IN  /\ output_position' = output_position + v_count
           /\ mod_component' =
                [mod_component EXCEPT
                    !.parts[vc_part].objects[vc_entry].vertex_count = v_count,
                    !.parts[vc_part].vertex_count = @ + v_count,
                    !.vertex_count = @ + v_count]
    /\ vc_entry' = vc_entry + 1
    /\ UNCHANGED <<vc_pc, vc_part, gb_calls>>
    /\ UNCHANGED notCount

\* the loop over part.objects is over
CountEndPart ==
    /\ vc_pc = "entry"
    /\ vc_part <= Len(mod_component.parts)
    /\ vc_entry > Len(mod_component.parts[vc_part].objects)
    /\ vc_part' = vc_part + 1
    /\ vc_entry' = 1
    /\ UNCHANGED <<vc_pc, mod_component, output_position, gb_calls>>
    /\ UNCHANGED notCount

\* the loop over component.parts is over: the Position buffer is queued
CountEndComponent ==
    /\ vc_pc = "entry"
    /\ vc_part > Len(mod_component.parts)
    /\ vc_pc' = "ready"
    /\ UNCHANGED <<mod_component, output_position, vc_part, vc_entry, gb_calls>>
    /\ UNCHANGED notCount

CountNext ==
    \/ NewModExporter
    \/ CountGenerateBuffers
    \/ CountSkipEntry
    \/ CountEntry
    \/ CountEndPart
    \/ CountEndComponent

SpecVertexCount == Init /\ [][CountNext]_vars

\* the sum of the vertex_count fields of a sequence of parts or sub-objects
RECURSIVE SumVertexCount(_)
SumVertexCount(s) ==
    IF Len(s) = 0 THEN 0 ELSE Head(s).vertex_count + SumVertexCount(Tail(s))

\* C29: after any number of calls of generate_buffers on one instance, the
\* vertex_count of a component equals the number of records of its Position
\* buffer, the sum of the vertex_count of its parts and the sum of the
\* vertex_count of its sub-objects.
C29_VertexCountsAgree ==
    (vc_pc = "ready" /\ gb_calls >= 1) =>
        /\ mod_component.vertex_count = output_position
        /\ mod_component.vertex_count = SumVertexCount(mod_component.parts)
        /\ mod_component.vertex_count =
                SumSeq([k \in DOMAIN mod_component.parts |->
                            SumVertexCount(mod_component.parts[k].objects)])

----------------------------------------------------------------------------
(* The loops of collect_vb, collect_vb_single and collect_ib *)

\* most bytes of a file
MaxBytes == 5

\* the passes of a loop are counted modulo this number, which no loop that
\* advances by a byte or more per pass reaches on a file of MaxBytes bytes
MaxPasses == 6

\* the byte values tried
ByteValues == {0, 255}

\* the contents of a file
Files == UNION {[1 .. n -> ByteValues] : n \in 0 .. MaxBytes}

Min(a, b) == IF a < b THEN a ELSE b

\* the offsets of the bytes of the slice [a : b] of n bytes
SliceOffsets(n, a, b) == [k \in 1 .. (Min(b, n) - a) |-> a + k - 1]

\* position_stride + blend_stride + texcoord_stride
TotalStride(strides_in) == SumSeq(strides_in)

\* one pass of the while loop of collect_vb from read position i
CollectVbPassed(st, n, strides_in, i) ==
    [position |-> st.position \o SliceOffsets(n, i, i + strides_in[1]),
     blend |-> st.blend \o SliceOffsets(n, i + strides_in[1],
                                        i + strides_in[1] + strides_in[2]),
     texcoord |-> st.texcoord \o
                    SliceOffsets(n, i + strides_in[1] + strides_in[2],
                                 i + strides_in[1] + strides_in[2] + strides_in[3])]

\* struct.unpack("1I", word)[0] + offset, little-endian, byte by byte from
\* byte k on: the bytes of the sum and the carry out of the last byte
RECURSIVE AddOffset(_, _, _)
AddOffset(word, k, carry) ==
    IF k > Len(word) THEN [bytes |-> <<>>, carry |-> carry]
    ELSE LET rest == AddOffset(word, k + 1, (word[k] + carry) \div 256)
         IN  [bytes |-> <<(word[k] + carry) % 256>> \o rest.bytes,
              carry |-> rest.carry]

\* the file does not exist: the empty bytearrays are returned
CollectMissingFile ==
    /\ cv_pc = "idle"
    /\ \/ /\ cv_fn' = "collect_vb"
          /\ \E strides_in \in [1 .. 3 -> 0 .. MaxStride] : cv_strides' = strides_in
          /\ streams' = [position |-> <<>>, blend |-> <<>>, texcoord |-> <<>>]
          /\ UNCHANGED cv_offset
       \/ /\ cv_fn' = "collect_vb_single"
          /\ \E stride \in 0 .. MaxStride : cv_strides' = <<stride>>
          /\ streams' = [result |-> <<>>]
          /\ UNCHANGED cv_offset
       \/ /\ cv_fn' = "collect_ib"
          /\ \E offset_in \in 0 .. MaxRecs : cv_offset' = offset_in
          /\ streams' = [ib |-> <<>>]
          /\ UNCHANGED cv_strides
    /\ cv_pc' = "returned"
    /\ UNCHANGED <<cv_data, cv_i, cv_passes>>
    /\ UNCHANGED notCollect

\* collect_vb reads the file and enters its loop
CollectVbCall ==
    /\ cv_pc = "idle"
    /\ \E file \in Files, strides_in \in [1 .. 3 -> 0 .. MaxStride] :
        /\ cv_data' = file
        /\ cv_strides' = strides_in
    /\ cv_fn' = "collect_vb"
    /\ streams' = [position |-> <<>>, blend |-> <<>>, texcoord |-> <<>>]
    /\ cv_i' = 0
    /\ cv_pc' = "loop"
    /\ UNCHANGED <<cv_offset, cv_passes>>
    /\ UNCHANGED notCollect

\* while i < len(data): one record is split over the three bytearrays
CollectVbPass ==
    /\ cv_pc = "loop"
    /\ cv_fn = "collect_vb"
    /\ cv_i < Len(cv_data)
    /\ streams' = CollectVbPassed(streams, Len(cv_data), cv_strides, cv_i)
    /\ cv_i' = cv_i + TotalStride(cv_strides)
    /\ cv_passes' = (cv_passes + 1) % MaxPasses
    /\ UNCHANGED <<cv_pc, cv_fn, cv_data, cv_strides, cv_offset>>
    /\ UNCHANGED notCollect

\* collect_vb_single reads the file and enters its loop
CollectVbSingleCall ==
    /\ cv_pc = "idle"
    /\ \E file \in Files, stride \in 0 .. MaxStride :
        /\ cv_data' = file
        /\ cv_strides' = <<stride>>
    /\ cv_fn' = "collect_vb_single"
    /\ streams' = [result |-> <<>>]
    /\ cv_i' = 0
    /\ cv_pc' = "loop"
    /\ UNCHANGED <<cv_offset, cv_passes>>
    /\ UNCHANGED notCollect

\* while i < len(data): result += data[i : i + stride]; i += stride
CollectVbSinglePass ==
    /\ cv_pc = "loop"
    /\ cv_fn = "collect_vb_single"
    /\ cv_i < Len(cv_data)
    /\ streams' = [result |-> streams.result \o
                        SliceOffsets(Len(cv_data), cv_i, cv_i + cv_strides[1])]
    /\ cv_i' = cv_i + cv_strides[1]
    /\ cv_passes' = (cv_passes + 1) % MaxPasses
    /\ UNCHANGED <<cv_pc, cv_fn, cv_data, cv_strides, cv_offset>>
    /\ UNCHANGED notCollect

\* collect_ib reads the file and enters its loop
CollectIbCall ==
    /\ cv_pc = "idle"
    /\ \E file \in Files, offset_in \in 0 .. MaxRecs :
        /\ cv_data' = file
        /\ cv_offset' = offset_in
    /\ cv_fn' = "collect_ib"
    /\ streams' = [ib |-> <<>>]
    /\ cv_i' = 0
    /\ cv_pc' = "loop"
    /\ UNCHANGED <<cv_strides, cv_passes>>
    /\ UNCHANGED notCollect

\* while i < len(data): the 4 bytes at i, plus offset, are packed again;
\* struct.error where fewer than 4 bytes are left or the sum exceeds 32 bits
CollectIbPass ==
    /\ cv_pc = "loop"
    /\ cv_fn = "collect_ib"
    /\ cv_i < Len(cv_data)
    /\ LET at == SliceOffsets(Len(cv_data), cv_i, cv_i + 4)
           word == [k \in DOMAIN at |-> cv_data[at[k] + 1]]
           sum == AddOffset(word, 1, cv_offset)
       IN  IF Len(word) < 4 \/ sum.carry > 0
           THEN /\ cv_pc' = "raised"
                /\ UNCHANGED <<streams, cv_i>>
           ELSE /\ streams' = [ib |-> streams.ib \o sum.bytes]
                /\ cv_i' = cv_i + 4
                /\ UNCHANGED cv_pc
    /\ cv_passes' = (cv_passes + 1) % MaxPasses
    /\ UNCHANGED <<cv_fn, cv_data, cv_strides, cv_offset>>
    /\ UNCHANGED notCollect

\* i < len(data) is false: the bytearrays are returned
CollectReturn ==
    /\ cv_pc = "loop"
    /\ cv_i >= Len(cv_data)
    /\ cv_pc' = "returned"
    /\ UNCHANGED <<cv_fn, cv_data, cv_strides, cv_offset, cv_i, streams,
                   cv_passes>>
    /\ UNCHANGED notCollect

CollectNext ==
    \/ CollectMissingFile
    \/ CollectVbCall
    \/ CollectVbPass
    \/ CollectVbSingleCall
    \/ CollectVbSinglePass
    \/ CollectIbCall
    \/ CollectIbPass
    \/ CollectReturn

\* a call that was started keeps running: the interpreter executes the next
\* statement of the loop
SpecCollect == Init /\ [][CollectNext]_vars /\ WF_vars(CollectNext)

\* the number of times offset j occurs in the sequence s
RECURSIVE Occurrences(_, _)
Occurrences(s, j) ==
    IF Len(s) = 0 THEN 0
    ELSE (IF Head(s) = j THEN 1 ELSE 0) + Occurrences(Tail(s), j)

\* the offsets of s increase: the bytes are in the order of the input
InInputOrder(s) == \A a \in DOMAIN s : \A b \in DOMAIN s : a < b => s[a] < s[b]

\* collect_vb returned for a positive total stride: every byte of a whole
\* record is in exactly one of position, blend and texcoord, once, and each
\* of the three holds its bytes in input order
WholeRecordsSplitOnce ==
    (cv_pc = "returned" /\ cv_fn = "collect_vb"
        /\ TotalStride(cv_strides) > 0) =>
        LET total == TotalStride(cv_strides)
            whole == (Len(cv_data) \div total) * total
        IN  /\ \A j \in 0 .. whole - 1 :
                Occurrences(streams.position, j) + Occurrences(streams.blend, j)
                    + Occurrences(streams.texcoord, j) = 1
            /\ InInputOrder(streams.position)
            /\ InInputOrder(streams.blend)
            /\ InInputOrder(streams.texcoord)

\* C30: collect_vb, collect_vb_single and collect_ib end for every file
\* content and every non-negative stride, a total stride of 0 with a
\* non-empty file included; for a positive total stride collect_vb puts every
\* byte of a whole record once into exactly one of its three streams, in
\* input order.
C30_CollectLoopsEnd ==
    /\ [](WholeRecordsSplitOnce)
    /\ (cv_pc = "loop") ~> (cv_pc \in {"returned", "raised"})

====
